---- MODULE Spec2Model ----
(***************************************************************************)
(* Model of the Docker service orchestration scripts of the payment API:   *)
(* ServiceOrchestrator (infra/docker/orchestrator.py) driving the service  *)
(* adapters (infra/docker/services/*.py) through the per-service state     *)
(* machine, and the adapters' readiness polling (verify).                  *)
(*                                                                         *)
(* The Docker daemon, the containers and the prerequisite checks are the   *)
(* environment: every external command or probe has an outcome the         *)
(* environment chooses.                                                    *)
(***************************************************************************)
EXTENDS Integers, Sequences, FiniteSets, TLC

(***************************************************************************)
(* Bounds of the model.                                                    *)
(***************************************************************************)
\* Longest scripted prefix of probe outcomes; later probes keep failing.
MaxScript == 2
\* Largest max_attempts handed to a direct verify call.
MaxAttemptsArg == 3
\* Most adapter calls (start, verify) of one start_all_services run that the
\* environment lets end without returning True.
MaxFailedCalls == 2
\* Most lines of a .env.example template.
MaxTemplateLines == 2
\* Most lines of a .env file before the manager touches it.
MaxEnvLines == 1
\* Most calls a caller makes on one LaravelEnvManager.
MaxEnvCalls == 2
\* Largest max_attempts handed to retry_on_failure.
MaxRetryAttempts == 3
\* Most calls a caller makes on one DockerNetworkManager.
MaxNetCalls == 3

(***************************************************************************)
(* ServiceState (orchestrator.py 37-43).                                   *)
(***************************************************************************)
PENDING == "pending"
STARTING == "starting"
VERIFYING == "verifying"
READY == "ready"
FAILED == "failed"
ServiceState == {PENDING, STARTING, VERIFYING, READY, FAILED}

(***************************************************************************)
(* The services of an orchestrator, in the insertion order of              *)
(* self.services, and the two startup batches of start_all_services.       *)
(***************************************************************************)
MonitoringOrder == <<"elasticsearch", "logstash", "kibana", "prometheus">>

\* Fault variant: the datastores listed in another order.
DatastoreOrder_Swapped == <<"mysql", "redis", "mongodb">>

DatastoreOrder == <<"redis", "mysql", "mongodb">>

AppOrder(mon) ==
    <<"laravel", "queue", "nginx">> \o (IF mon THEN MonitoringOrder ELSE <<>>)

ServiceOrder(mon) ==
    <<"redis", "mysql", "mongodb", "laravel", "queue", "nginx">>
        \o (IF mon THEN MonitoringOrder ELSE <<>>)

Range(seq) == {seq[i] : i \in 1..Len(seq)}

ServiceNames(mon) == Range(ServiceOrder(mon))

HttpProbed == Range(MonitoringOrder)

(***************************************************************************)
(* Readiness probes.  One probe of a command-probed adapter ends "ok",     *)
(* "fail" (non-zero exit, container not running, wrong output) or "raise"  *)
(* (the subprocess call itself raises, e.g. OSError).  One probe of an     *)
(* HTTP-probed adapter ends with a status code or "raise" (no connection). *)
(* A script is the outcomes of the first probes; the probes after it fail. *)
(***************************************************************************)
ProbeOutcomes(s) ==
    IF s \in HttpProbed THEN {"200", "503", "500", "raise"}
    ELSE {"ok", "fail", "raise"}

TailOutcome(s) == IF s \in HttpProbed THEN "500" ELSE "fail"

SeqsUpTo(S, n) == UNION {[1..k -> S] : k \in 0..n}

Scripts(s) == SeqsUpTo(ProbeOutcomes(s), MaxScript)

Outcome(s, script, i) == IF i <= Len(script) THEN script[i] ELSE TailOutcome(s)

\* What a call returned: its boolean, or an exception, with the number of
\* probes it ran and the number of times it slept.
Returned(b, probes, sleeps) ==
    [ret |-> b, raised |-> FALSE, probes |-> probes, sleeps |-> sleeps]

Raised(probes, sleeps) ==
    [ret |-> FALSE, raised |-> TRUE, probes |-> probes, sleeps |-> sleeps]

\* RedisService.verify: for attempt in range(1, max_attempts + 1); only
\* CalledProcessError is caught; sleeps after every failed attempt.
RECURSIVE RedisVerifyLoop(_, _, _, _)
RedisVerifyLoop(attempt, max_attempts, script, sleeps) ==
    IF attempt > max_attempts THEN Returned(FALSE, attempt - 1, sleeps)
    ELSE LET o == Outcome("redis", script, attempt) IN
         IF o = "ok" THEN Returned(TRUE, attempt, sleeps)
         ELSE IF o = "raise" THEN Raised(attempt, sleeps)
         ELSE RedisVerifyLoop(attempt + 1, max_attempts, script, sleeps + 1)

RedisVerify(max_attempts, script) == RedisVerifyLoop(1, max_attempts, script, 0)

\* MySQLService.verify and MongoDBService.verify: for attempt in
\* range(max_attempts); every exception is caught and counts as a failed
\* attempt; sleeps after every failed attempt.
RECURSIVE DbVerifyLoop(_, _, _, _, _)
DbVerifyLoop(s, attempt, max_attempts, script, sleeps) ==
    IF attempt >= max_attempts THEN Returned(FALSE, attempt, sleeps)
    ELSE LET o == Outcome(s, script, attempt + 1) IN
         IF o = "ok" THEN Returned(TRUE, attempt + 1, sleeps)
         ELSE DbVerifyLoop(s, attempt + 1, max_attempts, script, sleeps + 1)

DbVerify(s, max_attempts, script) == DbVerifyLoop(s, 0, max_attempts, script, 0)

\* LaravelService.verify and QueueService.verify: no loop; one check of the
\* container and of the process inside it, whatever max_attempts is.
SingleProbeVerify(s, max_attempts, script) ==
    Returned(Outcome(s, script, 1) = "ok", 1, 0)

\* NginxService.verify: for attempt in range(1, max_attempts + 1); an
\* exception returns False at once; sleeps only between two attempts.
RECURSIVE NginxVerifyLoop(_, _, _, _)
NginxVerifyLoop(attempt, max_attempts, script, sleeps) ==
    IF attempt > max_attempts THEN Returned(FALSE, attempt - 1, sleeps)
    ELSE LET o == Outcome("nginx", script, attempt) IN
         IF o = "ok" THEN Returned(TRUE, attempt, sleeps)
         ELSE IF o = "raise" THEN Returned(FALSE, attempt, sleeps)
         ELSE NginxVerifyLoop(attempt + 1, max_attempts, script,
                              IF attempt < max_attempts THEN sleeps + 1 ELSE sleeps)

NginxVerify(max_attempts, script) == NginxVerifyLoop(1, max_attempts, script, 0)

\* Kibana accepts 503 (still initialising) beside 200.
accept_statuses(s) == IF s = "kibana" THEN {"200", "503"} ELSE {"200"}

\* BaseDockerService._verify_http_endpoint: for attempt in
\* range(max_attempts); every exception is caught; sleeps after every
\* failed attempt.
RECURSIVE HttpVerifyLoop(_, _, _, _, _)
HttpVerifyLoop(s, attempt, max_attempts, script, sleeps) ==
    IF attempt >= max_attempts THEN Returned(FALSE, attempt, sleeps)
    ELSE LET o == Outcome(s, script, attempt + 1) IN
         IF o \in accept_statuses(s) THEN Returned(TRUE, attempt + 1, sleeps)
         ELSE HttpVerifyLoop(s, attempt + 1, max_attempts, script, sleeps + 1)

_verify_http_endpoint(s, max_attempts, script) ==
    HttpVerifyLoop(s, 0, max_attempts, script, 0)

\* The default of each adapter's max_attempts parameter.
DefaultAttempts(s) ==
    CASE s \in {"redis", "mysql", "mongodb", "nginx"} -> 30
      [] s \in {"laravel", "queue"} -> 60
      [] OTHER -> 10

\* service.verify(max_attempts) of adapter s against the probe script.
verify(s, max_attempts, script) ==
    CASE s = "redis" -> RedisVerify(max_attempts, script)
      [] s \in {"mysql", "mongodb"} -> DbVerify(s, max_attempts, script)
      [] s \in {"laravel", "queue"} -> SingleProbeVerify(s, max_attempts, script)
      [] s = "nginx" -> NginxVerify(max_attempts, script)
      [] OTHER -> _verify_http_endpoint(s, max_attempts, script)

(***************************************************************************)
(* service.start(wait) of adapter s.  launch is the outcome of the launch  *)
(* command(s): "ok", "fail" (non-zero exit) or "raise" (the call raises).  *)
(* RedisService.start catches only CalledProcessError, the other adapters  *)
(* catch every exception and return False.  QueueService.start(wait=True)  *)
(* calls self.wait_for_ready, which no class defines: the AttributeError   *)
(* is caught and start returns False.                                      *)
(***************************************************************************)
LaunchOutcomes == {"ok", "fail", "raise"}

start(s, wait, launch, script) ==
    IF launch = "ok" THEN
        IF ~wait THEN Returned(TRUE, 0, 0)
        ELSE IF s = "queue" THEN Returned(FALSE, 0, 0)
        ELSE verify(s, DefaultAttempts(s), script)
    ELSE IF launch = "raise" /\ s = "redis" THEN Raised(0, 0)
    ELSE Returned(FALSE, 0, 0)

(***************************************************************************)
(* PrerequisiteChecker.check_all: nine checks in a fixed order; a check    *)
(* reports pass, warning or fail, or raises.                               *)
(***************************************************************************)
Checks == <<"system", "docker", "docker_daemon", "docker_permissions", "python",
            "dependencies", "network", "disk_space", "permissions">>

CheckOutcomes == {"pass", "warning", "fail", "raise"}

\* Fault variant: a warning clears all_passed too.
check_all_step_WarningFails(passed, outcome) == passed /\ outcome = "pass"

\* all_passed after one more check: a fail or an exception clears it.
check_all_step(passed, outcome) == passed /\ outcome \in {"pass", "warning"}

(***************************************************************************)
(* DockerNetworkManager.create_all_networks.  For each network the         *)
(* environment is "normal", "race" (another process creates the network    *)
(* between get_network and create_network: the API answers "already        *)
(* exists" and create_network returns None) or "error" (APIError).         *)
(***************************************************************************)
ProjectNetworks == <<"payment-api-main", "payment-api-cache", "payment-api-monitoring">>

NetworkEnv == {"normal", "race", "error"}

RECURSIVE CreateLoop(_, _, _, _)
CreateLoop(i, nets, created, env) ==
    IF i > Len(ProjectNetworks)
    THEN [ret |-> created = Len(ProjectNetworks), nets |-> nets, error |-> FALSE,
          created |-> created]
    ELSE LET name == ProjectNetworks[i] IN
         IF env[name] = "error"
         THEN [ret |-> FALSE, nets |-> nets, error |-> TRUE, created |-> created]
         ELSE IF name \in nets THEN CreateLoop(i + 1, nets, created + 1, env)
         ELSE IF env[name] = "race" THEN CreateLoop(i + 1, nets \cup {name}, created, env)
         ELSE CreateLoop(i + 1, nets \cup {name}, created + 1, env)

create_all_networks(nets, env) == CreateLoop(1, nets, 0, env)

(***************************************************************************)
(* State.                                                                  *)
(***************************************************************************)
VARIABLES
    include_monitoring,    \* ServiceOrchestrator.include_monitoring
    service_states,        \* ServiceOrchestrator.service_states
    skip_prerequisites,    \* argument of start_all_services
    pc,                    \* position of the control thread
    phase,                 \* which batch start_all_services is starting
    idx,                   \* position of the current loop in its list
    success,               \* what start_service_with_state_machine returned
    critical_services_ok,  \* local of start_all_services
    failed_services,       \* local of start_all_services
    checks_run,            \* checks check_all has run
    all_passed,            \* local of check_all
    networks,              \* Docker networks that exist
    net_calls,             \* calls of create_all_networks
    all_ok,                \* local of _verify_all_services
    failed_verifications,  \* local of _verify_all_services
    calls,                 \* per service, the adapter calls made and their results
    lastVerify,            \* the verify call the state machine, or a direct caller, just made
    result,                \* what start_all_services returned
    exit_code,             \* exit status of the process, -1 while it runs
    containers,            \* per service, the container that holds its container_name
    lastStart,             \* the start call a direct caller just made
    lastCleanup,           \* the adapter whose cleanup_existing just returned
    report,                \* the rows show_status printed
    env_file,              \* content of the .env file
    example_file,          \* content of the .env.example template
    env_loaded,            \* how _load_environment_variables ended at construction
    lastEnv,               \* the LaravelEnvManager call just made
    checker,               \* PrerequisiteChecker: results, warnings, errors
    invoked,               \* the check functions check_all has called, in order
    entry_log,             \* the steps LaravelEntrypoint.run has attempted, in order
    lastRetry,             \* the retry_on_failure call just made
    lastNet,               \* the direct create_all_networks call just made
    container_env          \* the .env of the Laravel container and what run did to it

vars == <<include_monitoring, service_states, skip_prerequisites, pc, phase, idx,
          success, critical_services_ok, failed_services, checks_run, all_passed,
          networks, net_calls, all_ok, failed_verifications, calls, lastVerify,
          result, exit_code, containers, lastStart, lastCleanup, report,
          env_file, example_file, env_loaded, lastEnv,
          checker, invoked, entry_log, lastRetry, lastNet, container_env>>

\* The state of the Docker daemon and of the direct adapter calls.
adapterVars == <<containers, lastStart, lastCleanup>>

\* The state of the environment files and of the LaravelEnvManager calls.
envVars == <<env_file, example_file, env_loaded, lastEnv>>

\* The state of the command-line tools and helpers run on their own.
toolVars == <<checker, invoked, entry_log, lastRetry, lastNet, container_env>>

\* PrerequisiteChecker.__init__ (prerequisites.py 31-34).
NewChecker == [results |-> <<>>, warnings |-> <<>>, errors |-> <<>>]

NoRetry == [max_attempts |-> 0, delay |-> 0, script |-> <<>>, events |-> <<>>,
            outcome |-> [kind |-> "none", value |-> "none"]]

\* ret: what the call returned; created: its local count of networks;
\* prev: what the call before it returned; api_errors: the calls so far
\* that the Docker API answered with an error.
NoNet == [ret |-> FALSE, created |-> 0, prev |-> FALSE, api_errors |-> 0]

\* file: "missing", "empty_key" (no APP_KEY line or an empty one) or
\* "has_key"; at_launch: the file when the entrypoint started; check: how
\* the test -f of run ended; keygen: the artisan key:generate commands run
\* so far; clobbered: one of them ran while the file held a non-empty
\* APP_KEY; created: run wrote a basic .env.
NoContainerEnv == [file |-> "missing", at_launch |-> "missing", check |-> "none",
                   keygen |-> 0, clobbered |-> FALSE, created |-> FALSE]

\* No tool has run and no helper has been called.
InitTools ==
    /\ checker = NewChecker
    /\ invoked = <<>>
    /\ entry_log = <<>>
    /\ lastRetry = NoRetry
    /\ lastNet = NoNet
    /\ container_env = NoContainerEnv

NoVerify == [svc |-> "none", max_attempts |-> 0, script |-> <<>>,
             res |-> Returned(FALSE, 0, 0)]

VerifyCall(s, max_attempts, script) ==
    [svc |-> s, max_attempts |-> max_attempts, script |-> script,
     res |-> verify(s, max_attempts, script)]

\* One entry of calls[s].
Call(op, r) ==
    [op |-> op, ret |-> IF r.raised THEN "raised" ELSE IF r.ret THEN "true" ELSE "false"]

Services == ServiceNames(include_monitoring)

\* The adapter calls of this run that did not return True.
RECURSIVE CountFailed(_, _)
CountFailed(seq, i) ==
    IF i > Len(seq) THEN 0
    ELSE (IF seq[i].ret = "true" THEN 0 ELSE 1) + CountFailed(seq, i + 1)

RECURSIVE SumFailed(_)
SumFailed(S) ==
    IF S = {} THEN 0
    ELSE LET s == CHOOSE x \in S : TRUE IN CountFailed(calls[s], 1) + SumFailed(S \ {s})

FailedCalls == SumFailed(Services)

\* The environment may let a call end with r.
EnvAllows(r) == (~r.raised /\ r.ret) \/ FailedCalls < MaxFailedCalls

\* ServiceOrchestrator.__init__: every service PENDING.  The process has
\* not called anything yet.
InitOrchestrator ==
    /\ include_monitoring \in BOOLEAN
    /\ service_states = [s \in ServiceNames(include_monitoring) |-> PENDING]
    /\ skip_prerequisites = FALSE
    /\ pc = "idle"
    /\ phase = "none"
    /\ idx = 0
    /\ success = FALSE
    /\ critical_services_ok = TRUE
    /\ failed_services = <<>>
    /\ checks_run = 0
    /\ all_passed = TRUE
    /\ net_calls = 0
    /\ all_ok = TRUE
    /\ failed_verifications = <<>>
    /\ calls = [s \in ServiceNames(include_monitoring) |-> <<>>]
    /\ lastVerify = NoVerify
    /\ result = "none"
    /\ exit_code = -1
    /\ report = <<>>
    /\ InitTools

\* The Docker networks that exist when the process starts.
InitNetworks == networks \in SUBSET Range(ProjectNetworks)

(***************************************************************************)
(* Containers.  The container that holds an adapter's container_name is    *)
(* "own" (created by the adapter's compose project), "foreign" (created by *)
(* something else, e.g. docker run --name) or there is "none".             *)
(***************************************************************************)
ContainerKinds == {"none", "own", "foreign"}

\* An external command: exit status 0, non-zero, or the call raises.
CommandOutcomes == {"ok", "fail", "raise"}

\* docker compose up cannot create a container whose name another
\* container, not of its project, holds.
NameInUse(c) == c = "foreign"

\* The outcomes of the launch command with container c holding the name:
\* "conflict" is a non-zero exit with "already in use" in stderr.
LaunchOutcomesFor(c) == IF NameInUse(c) THEN {"conflict", "raise"} ELSE LaunchOutcomes

\* docker compose down: removes the containers of the compose project.
ComposeDown(c, down) == IF down = "ok" /\ c = "own" THEN "none" ELSE c

\* docker rm -f <container_name>: removes whatever container holds the name.
RemoveForced(c, rm) == IF rm = "ok" THEN "none" ELSE c

\* cleanup_existing of adapter s with container c holding its name; the
\* container left.  RedisService: compose down -v, then docker rm -f (an
\* exception of the first skips the second); LaravelService, NginxService:
\* docker-compose down <service_name> only; the others
\* (BaseDockerService): docker rm -f only.  No adapter looks at an exit
\* status and every exception is swallowed.
cleanup_existing(s, c, down, rm) ==
    CASE s = "redis" ->
            IF down = "raise" THEN c ELSE RemoveForced(ComposeDown(c, down), rm)
      [] s \in {"laravel", "nginx"} -> ComposeDown(c, down)
      [] OTHER -> RemoveForced(c, rm)

\* The container after the launch command ended with launch.
ContainerAfterLaunch(c, launch) == IF launch = "ok" THEN "own" ELSE c

\* start(wait) calls self.verify(): every adapter but QueueService, whose
\* start calls self.wait_for_ready(), a method no class defines.
StartInvokesVerify(s, wait, launch) == launch = "ok" /\ wait /\ s # "queue"

\* RedisService.start after the first launch ended in a name conflict:
\* cleanup_existing, then the launch command again; only
\* CalledProcessError is caught.
RedisStartAfterConflict(wait, relaunch, script) ==
    IF relaunch = "ok" THEN start("redis", wait, "ok", script)
    ELSE IF relaunch = "raise" THEN Raised(0, 0)
    ELSE Returned(FALSE, 0, 0)

\* steps: the steps the start call performed, in order, each with how it
\* ended.
NoStart == [svc |-> "none", wait |-> FALSE, launch |-> "none", script |-> <<>>,
            res |-> Returned(FALSE, 0, 0), verified |-> FALSE,
            conflict |-> FALSE, after_cleanup |-> FALSE,
            cleanup_if_conflict |-> TRUE, steps |-> <<>>]

Step(name, out) == [step |-> name, out |-> out]

\* How a call that ended as r went, as an outcome of a step.
CallOutcome(r) == IF r.raised THEN "raise" ELSE IF r.ret THEN "ok" ELSE "fail"

\* The verify step of a start call on adapter s that returned res, if the
\* call got that far.
VerifyStep(s, wait, launch, res) ==
    IF StartInvokesVerify(s, wait, launch)
    THEN <<Step("verify", CallOutcome(res))>> ELSE <<>>

\* No direct adapter call has been made; no container holds a name.
InitAdapters ==
    /\ containers = [s \in ServiceNames(include_monitoring) |-> "none"]
    /\ lastStart = NoStart
    /\ lastCleanup = "none"

(***************************************************************************)
(* LaravelEnvManager (scripts/env_manager.py).  A file is absent or holds  *)
(* a sequence of lines.  A line is a binding KEY=value, a comment or a blank *)
(* line.  quoted says that the key (or the value) is written in quotes, as *)
(* a person writes a key or value that holds white space; the manager      *)
(* itself writes f"{key}={value}", never quoted.  NoValue is Python's None: *)
(* the value dotenv gives a line that has a key and no "=".                *)
(***************************************************************************)
Absent == [exists |-> FALSE, lines |-> <<>>]

\* The file that holds the lines.
File(lines) == [exists |-> TRUE, lines |-> lines]

NoValue == "<None>"

CommentKey == "#"

BlankKey == ""

\* "\n# Variaveis adicionadas automaticamente do .env.example\n"
BlankLine == [key |-> BlankKey, value |-> "", quoted |-> FALSE]

HeaderLine == [key |-> CommentKey, value |-> "added from .env.example", quoted |-> FALSE]

\* A key that dotenv reads only when it is written in quotes.
NeedsQuoting(k) == k = "MY KEY"

\* The lines of the files the environment provides.
EnvLines ==
    {[key |-> "DB_HOST", value |-> v, quoted |-> FALSE] : v \in {"x", "", NoValue}}
    \cup {[key |-> "DB_HOST", value |-> " ", quoted |-> TRUE]}
    \cup {[key |-> "APP_KEY", value |-> v, quoted |-> FALSE] : v \in {"x", ""}}
    \cup {[key |-> "MY KEY", value |-> "x", quoted |-> TRUE]}

\* The files of at most n lines.
Files(n) == {Absent} \cup {File(lines) : lines \in SeqsUpTo(EnvLines, n)}

\* dotenv's parser on one line: a comment or blank line binds nothing; an
\* unquoted key ends at white space, and a line whose key is followed by
\* anything but "=" is invalid and binds nothing.
Binds(line) ==
    /\ line.key \notin {CommentKey, BlankKey}
    /\ (line.quoted \/ ~NeedsQuoting(line.key))

\* dotenv_values(file).keys(), in insertion order; {} for a missing file.
RECURSIVE dotenv_keys_from(_, _, _)
dotenv_keys_from(file, i, acc) ==
    IF i > Len(file) THEN acc
    ELSE IF Binds(file[i]) /\ file[i].key \notin Range(acc)
         THEN dotenv_keys_from(file, i + 1, Append(acc, file[i].key))
         ELSE dotenv_keys_from(file, i + 1, acc)

dotenv_keys(file) ==
    IF file = Absent THEN <<>> ELSE dotenv_keys_from(file.lines, 1, <<>>)

\* dotenv_values(file).get(k): the last binding of k wins; None without one.
dotenv_get(file, k) ==
    IF file = Absent THEN NoValue
    ELSE LET at == {i \in 1..Len(file.lines) :
                        Binds(file.lines[i]) /\ file.lines[i].key = k} IN
         IF at = {} THEN NoValue
         ELSE file.lines[CHOOSE i \in at : \A j \in at : j <= i].value

\* f"{value}": None is written as the text None.
FormatValue(v) == IF v = NoValue THEN "None" ELSE v

\* value.strip()
strip(v) == IF v = " " THEN "" ELSE v

\* The template keys that dotenv_values does not find in the .env.
RECURSIVE missing_vars(_, _, _)
missing_vars(keys, current, i) ==
    IF i > Len(keys) THEN <<>>
    ELSE (IF keys[i] \in Range(current) THEN <<>> ELSE <<keys[i]>>)
         \o missing_vars(keys, current, i + 1)

\* _ensure_all_env_vars: the content of the .env afterwards.
_ensure_all_env_vars(env, example) ==
    IF example = Absent THEN env
    ELSE LET missing == missing_vars(dotenv_keys(example), dotenv_keys(env), 1) IN
         IF missing = <<>> THEN env
         ELSE File(env.lines
                   \o <<BlankLine, HeaderLine>>
                   \o [i \in 1..Len(missing) |->
                          [key |-> missing[i],
                           value |-> FormatValue(dotenv_get(example, missing[i])),
                           quoted |-> FALSE]])

\* Fault variant: with no template an empty .env is created.
validate_env_file_Touch(env, example) ==
    IF env = Absent
    THEN IF example # Absent THEN [ret |-> TRUE, env |-> example]
         ELSE [ret |-> FALSE, env |-> File(<<>>)]
    ELSE [ret |-> TRUE, env |-> _ensure_all_env_vars(env, example)]

\* validate_env_file: what it returns and the content of the .env afterwards.
validate_env_file(env, example) ==
    IF env = Absent
    THEN IF example # Absent THEN [ret |-> TRUE, env |-> example]
         ELSE [ret |-> FALSE, env |-> Absent]
    ELSE [ret |-> TRUE, env |-> _ensure_all_env_vars(env, example)]

\* Fault variant: no key may be empty.
optional_empty_vars_None == {}

\* The keys validate_required_vars lets be empty.
optional_empty_vars == {"APP_KEY", "QUEUE_OPTIONS", "REDIS_PASSWORD"}

\* "exists" of validate_required_vars for template key var.
exists(current, var) ==
    LET value == dotenv_get(current, var) IN
    IF var \in optional_empty_vars THEN value # NoValue
    ELSE value # NoValue /\ strip(value) # ""

\* validate_required_vars: the dictionary it returns, as the function from
\* the template keys to their status (empty when it returns {}), and the
\* content of the .env afterwards.
validate_required_vars(env, example) ==
    LET v == validate_env_file(env, example) IN
    IF ~v.ret \/ example = Absent
    THEN [validation |-> [k \in {} |-> TRUE], env |-> v.env]
    ELSE [validation |-> [k \in Range(dotenv_keys(example)) |-> exists(v.env, k)],
          env |-> v.env]

\* all(validation.values())
all_values(validation) == \A k \in DOMAIN validation : validation[k]

\* load_env_vars: validate_env_file, then load_dotenv into os.environ.
load_env_vars(env, example) == validate_env_file(env, example)

\* setup_laravel_env: what it returns and the content of the .env afterwards.
setup_laravel_env(env, example) ==
    LET v == validate_env_file(env, example) IN
    IF ~v.ret THEN [ret |-> FALSE, env |-> v.env]
    ELSE LET first == validate_required_vars(v.env, example) IN
         IF all_values(first.validation) THEN load_env_vars(first.env, example)
         ELSE LET again == validate_required_vars(
                               _ensure_all_env_vars(first.env, example), example) IN
              IF all_values(again.validation) THEN load_env_vars(again.env, example)
              ELSE [ret |-> FALSE, env |-> again.env]

NoEnv == [op |-> "none", prev |-> "none", ret |-> "none", before |-> Absent, n |-> 0]

\* The .env and .env.example that the constructor may find: none of them, a
\* complete .env, or a .env whose template asks for a key left empty.
ConstructionFiles ==
    {[env |-> Absent, example |-> Absent],
     [env |-> File(<<[key |-> "DB_HOST", value |-> "x", quoted |-> FALSE]>>),
      example |-> Absent],
     [env |-> File(<<[key |-> "DB_HOST", value |-> "", quoted |-> FALSE]>>),
      example |-> File(<<[key |-> "DB_HOST", value |-> "", quoted |-> FALSE]>>)]}

\* _load_environment_variables at construction: setup_laravel_env on the
\* files found; its result is printed and the constructor goes on.
InitEnv ==
    \E f \in ConstructionFiles :
        LET r == setup_laravel_env(f.env, f.example) IN
        /\ env_file = r.env
        /\ example_file = f.example
        /\ env_loaded = (IF r.ret THEN "true" ELSE "false")
        /\ lastEnv = NoEnv

\* ServiceOrchestrator.__init__.
Init == InitOrchestrator /\ InitNetworks /\ InitAdapters /\ InitEnv

(***************************************************************************)
(* start_all_services and the CLI action "start".                          *)
(***************************************************************************)
CurrentList == IF phase = "datastores" THEN DatastoreOrder ELSE AppOrder(include_monitoring)

Current == CurrentList[idx]

\* Fault variant: the skip flag is ignored.
RunsPrerequisites_Always(skip) == TRUE

\* "if not skip_prerequisites and not self.check_prerequisites()": the
\* checker runs only when not skipped.
RunsPrerequisites(skip) == ~skip

\* Fault variant: a started service is recorded READY without verification.
StateAfterStart_SkipVerify(r) == IF r.raised \/ ~r.ret THEN FAILED ELSE READY

\* The state start_service_with_state_machine records once start(wait=False)
\* has returned r or raised.
StateAfterStart(r) == IF r.raised \/ ~r.ret THEN FAILED ELSE VERIFYING

\* Fault variant: the result of verify is ignored.
StateAfterVerify_AlwaysReady(r) == READY

\* Fault variant: no except clause, the state stays as it was when verify raises.
StateAfterVerify_NoExcept(r) ==
    IF r.raised THEN VERIFYING ELSE IF r.ret THEN READY ELSE FAILED

\* The state it records once verify() has returned r or raised.
StateAfterVerify(r) == IF ~r.raised /\ r.ret THEN READY ELSE FAILED

\* Fault variant: a datastore failure does not clear critical_services_ok.
critical_after_Ignored(critical, ok) == critical

\* critical_services_ok after a datastore's state machine returned ok.
critical_after(critical, ok) == critical /\ ok

\* Fault variant: the batch is abandoned at the first failure.
LoopContinues_BreakOnFailure(i, n, ok) == i < n /\ ok

\* "for service_name in ...": the loop goes on to the next service whether
\* or not this one succeeded.
LoopContinues(i, n, ok) == i < n

\* "if critical_services_ok:" the application tier is started.
StartsApplications(critical) == critical

\* Fault variant: the final pass verifies the failed services too.
SkippedInFinalPass_Never(state) == FALSE

\* _verify_all_services skips the services that failed.
SkippedInFinalPass(state) == state = FAILED

\* What _verify_all_services returns: True on both branches.
VerifyAllResult(failed) == "true"

\* main: sys.exit(1) unless start_all_services returned True; an uncaught
\* exception ends the process with status 1 as well.
ExitCode(res) == IF res = "true" THEN 0 ELSE 1

ReturnFromStartAll(res) ==
    /\ pc' = "returned"
    /\ result' = res

\* Fault variant: the constructor exits when the environment setup failed.
ConstructionContinues_ExitOnFailure(loaded) == loaded = "true"

\* _load_environment_variables prints a failed setup and returns ("Nao
\* sair, permitir que o sistema continue"): the constructor goes on and the
\* orchestrator is usable whatever the setup returned.
ConstructionContinues(loaded) == TRUE

CallStartAll(skip) ==
    /\ pc = "idle"
    /\ ConstructionContinues(env_loaded)
    /\ skip_prerequisites' = skip
    /\ pc' = IF RunsPrerequisites(skip) THEN "prereq" ELSE "networks"
    /\ UNCHANGED <<include_monitoring, service_states, phase, idx, success,
                   critical_services_ok, failed_services, checks_run, all_passed,
                   networks, net_calls, all_ok, failed_verifications, calls,
                   lastVerify, result, exit_code>>
    /\ UNCHANGED <<adapterVars, report, envVars, toolVars>>

\* One iteration of check_all's loop.
RunCheck(outcome) ==
    /\ pc = "prereq"
    /\ checks_run < Len(Checks)
    /\ checks_run' = checks_run + 1
    /\ all_passed' = check_all_step(all_passed, outcome)
    /\ UNCHANGED <<include_monitoring, service_states, skip_prerequisites, pc, phase,
                   idx, success, critical_services_ok, failed_services, networks,
                   net_calls, all_ok, failed_verifications, calls, lastVerify,
                   result, exit_code>>
    /\ UNCHANGED <<adapterVars, report, envVars, toolVars>>

\* check_all returns all_passed; check_prerequisites returns it; a failure
\* makes start_all_services return False.
CheckPrerequisitesReturn ==
    /\ pc = "prereq"
    /\ checks_run = Len(Checks)
    /\ IF all_passed
       THEN pc' = "networks" /\ UNCHANGED result
       ELSE ReturnFromStartAll("false")
    /\ UNCHANGED <<include_monitoring, service_states, skip_prerequisites, phase, idx,
                   success, critical_services_ok, failed_services, checks_run,
                   all_passed, networks, net_calls, all_ok, failed_verifications,
                   calls, lastVerify, exit_code>>
    /\ UNCHANGED <<adapterVars, report, envVars, toolVars>>

\* The record of a create_all_networks call that ended as r.
NetCall(r) ==
    [ret |-> r.ret, created |-> r.created, prev |-> lastNet.ret,
     api_errors |-> lastNet.api_errors + (IF r.error THEN 1 ELSE 0)]

\* Fault variant: start_all_services goes on whatever create_all_networks
\* returned.
NetworksCreated_Ignored(ret) == TRUE

\* start_all_services: if not self.network_manager.create_all_networks():
\* return False.
NetworksCreated(ret) == ret

\* network_manager.create_all_networks(), then update_compose_files(), which
\* always returns True.
CreateNetworks(env) ==
    /\ pc = "networks"
    /\ LET r == create_all_networks(networks, env) IN
        /\ networks' = r.nets
        /\ net_calls' = net_calls + 1
        /\ lastNet' = NetCall(r)
        /\ IF NetworksCreated(r.ret)
           THEN /\ pc' = "sm_begin"
                /\ phase' = "datastores"
                /\ idx' = 1
                /\ UNCHANGED result
           ELSE /\ ReturnFromStartAll("false")
                /\ UNCHANGED <<phase, idx>>
    /\ UNCHANGED <<include_monitoring, service_states, skip_prerequisites, success,
                   critical_services_ok, failed_services, checks_run, all_passed,
                   all_ok, failed_verifications, calls, lastVerify, exit_code>>
    /\ UNCHANGED <<adapterVars, report, envVars, checker, invoked, entry_log, lastRetry,
                   container_env>>

\* start_service_with_state_machine: update_service_state(STARTING).
UpdateStarting ==
    /\ pc = "sm_begin"
    /\ service_states' = [service_states EXCEPT ![Current] = STARTING]
    /\ pc' = "sm_start"
    /\ UNCHANGED <<include_monitoring, skip_prerequisites, phase, idx, success,
                   critical_services_ok, failed_services, checks_run, all_passed,
                   networks, net_calls, all_ok, failed_verifications, calls,
                   lastVerify, result, exit_code>>
    /\ UNCHANGED <<adapterVars, report, envVars, toolVars>>

\* service.start(wait=False) returns or raises; the state machine records
\* VERIFYING, or FAILED and returns False.
StartReturns(launch) ==
    /\ pc = "sm_start"
    /\ LET r == start(Current, FALSE, launch, <<>>)
           next == StateAfterStart(r) IN
        /\ EnvAllows(r)
        /\ calls' = [calls EXCEPT ![Current] = Append(@, Call("start", r))]
        /\ containers' = [containers EXCEPT ![Current] = ContainerAfterLaunch(@, launch)]
        /\ service_states' = [service_states EXCEPT ![Current] = next]
        /\ IF next = VERIFYING
           THEN pc' = "sm_verify" /\ UNCHANGED success
           ELSE pc' = "loop_after" /\ success' = FALSE
    /\ UNCHANGED <<include_monitoring, skip_prerequisites, phase, idx,
                   critical_services_ok, failed_services, checks_run, all_passed,
                   networks, net_calls, all_ok, failed_verifications, lastVerify,
                   result, exit_code>>
    /\ UNCHANGED <<lastStart, lastCleanup, report, envVars, toolVars>>

\* service.verify() with the adapter's default budget returns or raises;
\* the state machine records READY or FAILED and returns.
VerifyReturns ==
    /\ pc = "sm_verify"
    /\ \E script \in Scripts(Current) :
       LET v == VerifyCall(Current, DefaultAttempts(Current), script)
           next == StateAfterVerify(v.res) IN
        /\ EnvAllows(v.res)
        /\ lastVerify' = v
        /\ calls' = [calls EXCEPT ![Current] = Append(@, Call("verify", v.res))]
        /\ service_states' = [service_states EXCEPT ![Current] = next]
        /\ success' = (next = READY)
    /\ pc' = "loop_after"
    /\ UNCHANGED <<include_monitoring, skip_prerequisites, phase, idx,
                   critical_services_ok, failed_services, checks_run, all_passed,
                   networks, net_calls, all_ok, failed_verifications, result,
                   exit_code>>
    /\ UNCHANGED <<adapterVars, report, envVars, toolVars>>

\* The rest of the loop body: record the failure, sleep, next service.
LoopAfter ==
    /\ pc = "loop_after"
    /\ failed_services' = IF success THEN failed_services
                          ELSE Append(failed_services, Current)
    /\ critical_services_ok' = IF phase = "datastores"
                               THEN critical_after(critical_services_ok, success)
                               ELSE critical_services_ok
    /\ lastVerify' = NoVerify
    /\ IF LoopContinues(idx, Len(CurrentList), success)
       THEN idx' = idx + 1 /\ pc' = "sm_begin"
       ELSE idx' = 0 /\ pc' = IF phase = "datastores" THEN "critical" ELSE "final"
    /\ UNCHANGED <<include_monitoring, service_states, skip_prerequisites, phase,
                   success, checks_run, all_passed, networks, net_calls, all_ok,
                   failed_verifications, calls, result, exit_code>>
    /\ UNCHANGED <<adapterVars, report, envVars, toolVars>>

\* "if critical_services_ok:" start the application tier, else skip it.
CriticalCheck ==
    /\ pc = "critical"
    /\ IF StartsApplications(critical_services_ok)
       THEN phase' = "apps" /\ idx' = 1 /\ pc' = "sm_begin"
       ELSE phase' = "skipped" /\ idx' = 0 /\ pc' = "final"
    /\ UNCHANGED <<include_monitoring, service_states, skip_prerequisites, success,
                   critical_services_ok, failed_services, checks_run, all_passed,
                   networks, net_calls, all_ok, failed_verifications, calls,
                   lastVerify, result, exit_code>>
    /\ UNCHANGED <<adapterVars, report, envVars, toolVars>>

FinalCurrent == ServiceOrder(include_monitoring)[idx + 1]

\* _verify_all_services: a FAILED service is skipped.
FinalSkip ==
    /\ pc = "final"
    /\ idx < Len(ServiceOrder(include_monitoring))
    /\ SkippedInFinalPass(service_states[FinalCurrent])
    /\ idx' = idx + 1
    /\ UNCHANGED <<include_monitoring, service_states, skip_prerequisites, pc, phase,
                   success, critical_services_ok, failed_services, checks_run,
                   all_passed, networks, net_calls, all_ok, failed_verifications,
                   calls, lastVerify, result, exit_code>>
    /\ UNCHANGED <<adapterVars, report, envVars, toolVars>>

\* _verify_all_services: service.verify(max_attempts=10) on any other
\* service; an exception is not caught and leaves start_all_services.
FinalVerify ==
    /\ pc = "final"
    /\ idx < Len(ServiceOrder(include_monitoring))
    /\ ~SkippedInFinalPass(service_states[FinalCurrent])
    /\ \E script \in Scripts(FinalCurrent) :
       LET v == VerifyCall(FinalCurrent, 10, script) IN
        /\ EnvAllows(v.res)
        /\ calls' = [calls EXCEPT ![FinalCurrent] = Append(@, Call("final_verify", v.res))]
        /\ IF v.res.raised
           THEN /\ pc' = "raised"
                /\ result' = "raised"
                /\ UNCHANGED <<idx, all_ok, failed_verifications>>
           ELSE /\ idx' = idx + 1
                /\ all_ok' = (all_ok /\ v.res.ret)
                /\ failed_verifications' =
                       IF v.res.ret THEN failed_verifications
                       ELSE Append(failed_verifications, FinalCurrent)
                /\ UNCHANGED <<pc, result>>
    /\ UNCHANGED <<include_monitoring, service_states, skip_prerequisites, phase,
                   success, critical_services_ok, failed_services, checks_run,
                   all_passed, networks, net_calls, lastVerify, exit_code>>
    /\ UNCHANGED <<adapterVars, report, envVars, toolVars>>

\* _verify_all_services returns, and start_all_services returns its value.
VerifyAllReturn ==
    /\ pc = "final"
    /\ idx = Len(ServiceOrder(include_monitoring))
    /\ ReturnFromStartAll(VerifyAllResult(failed_verifications))
    /\ UNCHANGED <<include_monitoring, service_states, skip_prerequisites, phase, idx,
                   success, critical_services_ok, failed_services, checks_run,
                   all_passed, networks, net_calls, all_ok, failed_verifications,
                   calls, lastVerify, exit_code>>
    /\ UNCHANGED <<adapterVars, report, envVars, toolVars>>

\* main: the process ends.
MainExit ==
    /\ pc \in {"returned", "raised"}
    /\ exit_code' = ExitCode(result)
    /\ pc' = "exited"
    /\ UNCHANGED <<include_monitoring, service_states, skip_prerequisites, phase, idx,
                   success, critical_services_ok, failed_services, checks_run,
                   all_passed, networks, net_calls, all_ok, failed_verifications,
                   calls, lastVerify, result>>
    /\ UNCHANGED <<adapterVars, report, envVars, toolVars>>

Next ==
    \/ \E skip \in BOOLEAN : CallStartAll(skip)
    \/ \E outcome \in CheckOutcomes : RunCheck(outcome)
    \/ CheckPrerequisitesReturn
    \/ \E env \in [Range(ProjectNetworks) -> NetworkEnv] : CreateNetworks(env)
    \/ UpdateStarting
    \/ \E launch \in LaunchOutcomes : StartReturns(launch)
    \/ VerifyReturns
    \/ LoopAfter
    \/ CriticalCheck
    \/ FinalSkip
    \/ FinalVerify
    \/ VerifyAllReturn
    \/ MainExit

Spec == Init /\ [][Next]_vars

(***************************************************************************)
(* One direct call of an adapter's verify with an arbitrary max_attempts.   *)
(***************************************************************************)
DirectVerify(s, max_attempts, script) ==
    /\ pc = "idle"
    /\ lastVerify = NoVerify
    /\ lastStart = NoStart
    /\ lastCleanup = "none"
    /\ lastVerify' = VerifyCall(s, max_attempts, script)
    /\ UNCHANGED <<include_monitoring, service_states, skip_prerequisites, pc, phase,
                   idx, success, critical_services_ok, failed_services, checks_run,
                   all_passed, networks, net_calls, all_ok, failed_verifications,
                   calls, result, exit_code>>
    /\ UNCHANGED <<adapterVars, report, envVars, toolVars>>

\* One direct call of an adapter's cleanup_existing.
DirectCleanup(s, down, rm) ==
    /\ pc = "idle"
    /\ lastVerify = NoVerify
    /\ lastStart = NoStart
    /\ lastCleanup = "none"
    /\ containers' = [containers EXCEPT ![s] = cleanup_existing(s, @, down, rm)]
    /\ lastCleanup' = s
    /\ UNCHANGED <<include_monitoring, service_states, skip_prerequisites, pc, phase,
                   idx, success, critical_services_ok, failed_services, checks_run,
                   all_passed, networks, net_calls, all_ok, failed_verifications,
                   calls, lastVerify, result, exit_code, lastStart, report, envVars, toolVars>>

\* A direct start call on adapter s ended: launch is the outcome of its
\* launch, after the container that holds the name now, res what start
\* returned, steps what it did.
StartEnds(s, wait, cleanup_if_conflict, launch, script, after, res, steps) ==
    /\ lastStart' =
          [svc |-> s, wait |-> wait, launch |-> launch, script |-> script, res |-> res,
           verified |-> StartInvokesVerify(s, wait, launch),
           conflict |-> launch = "conflict",
           after_cleanup |-> lastCleanup = s,
           cleanup_if_conflict |-> cleanup_if_conflict,
           steps |-> steps]
    /\ containers' = [containers EXCEPT ![s] = after]
    /\ lastCleanup' = "none"
    /\ UNCHANGED <<include_monitoring, service_states, skip_prerequisites, pc, phase,
                   idx, success, critical_services_ok, failed_services, checks_run,
                   all_passed, networks, net_calls, all_ok, failed_verifications,
                   calls, lastVerify, result, exit_code, report, example_file,
                   env_loaded, lastEnv, toolVars>>

\* Fault variant: RedisService.start retries after any non-zero exit.
RetriesLaunch_AnyFailure(launch, cleanup_if_conflict) ==
    launch \in {"conflict", "fail"}

\* RedisService.start: if "already in use" in e.stderr and
\* cleanup_if_conflict.
RetriesLaunch(launch, cleanup_if_conflict) ==
    launch = "conflict" /\ cleanup_if_conflict

\* One direct call of an adapter's start(wait), possibly right after its
\* cleanup_existing: the launch command runs once.  Only RedisService.start
\* has the parameter cleanup_if_conflict.
DirectStart(s, wait, cleanup_if_conflict, launch, script) ==
    /\ pc = "idle"
    /\ lastVerify = NoVerify
    /\ lastStart = NoStart
    /\ lastCleanup \in {"none", s}
    /\ s # "laravel"
    /\ launch \in LaunchOutcomesFor(containers[s])
    /\ ~(s = "redis" /\ RetriesLaunch(launch, cleanup_if_conflict))
    /\ LET res == start(s, wait, launch, script) IN
       StartEnds(s, wait, cleanup_if_conflict, launch, script,
                 ContainerAfterLaunch(containers[s], launch), res,
                 <<Step("up", launch)>> \o VerifyStep(s, wait, launch, res))
    /\ UNCHANGED env_file

\* One direct call of RedisService.start(wait) whose first launch makes it
\* try again: cleanup_existing, then the launch command once more.
RedisStartRetry(wait, launch, down, rm, relaunch, script) ==
    /\ pc = "idle"
    /\ lastVerify = NoVerify
    /\ lastStart = NoStart
    /\ lastCleanup \in {"none", "redis"}
    /\ launch \in LaunchOutcomesFor(containers["redis"])
    /\ RetriesLaunch(launch, TRUE)
    /\ LET cleaned == cleanup_existing("redis", containers["redis"], down, rm)
           res == RedisStartAfterConflict(wait, relaunch, script)
       IN
        /\ relaunch \in LaunchOutcomesFor(cleaned)
        /\ StartEnds("redis", wait, TRUE, relaunch, script,
                     ContainerAfterLaunch(cleaned, relaunch), res,
                     <<Step("up", launch), Step("cleanup_existing", "ok"),
                       Step("up", relaunch)>>
                         \o VerifyStep("redis", wait, relaunch, res))
    /\ UNCHANGED env_file

\* Fault variant: LaravelService.start goes on after a failed step.
LaravelProceeds_Always(out) == TRUE

\* LaravelService.start returns False at the first step that failed.
LaravelProceeds(out) == out = "ok"

\* LaravelService.start, up to the point where it would call verify: the
\* .env of the application, if any, is copied over the .env of the docker
\* directory (copy: how shutil.copy2 ended); setup_laravel_env (setup: what
\* it returned and the .env it left); docker-compose up (up);
\* _run_entrypoint, which waits, runs entrypoint.py (entry: its exit status,
\* or the call raised) and returns False unless the status is 0.  Every
\* exception is caught by start, which returns False.  The result: the
\* steps done, whether docker-compose up ran, and the outcome of the whole
\* ("ok", or that of the step it ended at).
LaravelLaunch(copy, setup, up, entry) ==
    IF copy = "raise"
    THEN [steps |-> <<>>, ran_up |-> FALSE, launch |-> "raise"]
    ELSE LET env_out == IF setup.ret THEN "ok" ELSE "fail"
             p1 == LaravelProceeds(env_out)
             p2 == p1 /\ up # "raise" /\ LaravelProceeds(up)
             p3 == p2 /\ entry # "raise" /\ LaravelProceeds(entry)
         IN
         [steps |-> <<Step("env", env_out)>>
                       \o (IF p1 THEN <<Step("up", up)>> ELSE <<>>)
                       \o (IF p2 THEN <<Step("entrypoint", entry)>> ELSE <<>>),
          ran_up |-> p1,
          launch |-> IF p3 THEN "ok" ELSE IF ~p1 THEN "fail"
                     ELSE IF ~p2 THEN up ELSE entry]

\* One direct call of LaravelService.start(wait); api_env is the .env of
\* the application.
LaravelDirectStart(wait, api_env, copy, up, entry, script) ==
    /\ pc = "idle"
    /\ lastVerify = NoVerify
    /\ lastStart = NoStart
    /\ lastCleanup \in {"none", "laravel"}
    /\ up \in LaunchOutcomesFor(containers["laravel"])
    /\ \E setup \in {setup_laravel_env(IF api_env.exists THEN api_env ELSE env_file,
                                       example_file)} :
       \E l \in {LaravelLaunch(copy, setup, up, entry)} :
       \E res \in {start("laravel", wait, l.launch, script)} :
        /\ env_file' = (IF copy = "raise" THEN env_file ELSE setup.env)
        /\ StartEnds("laravel", wait, TRUE, l.launch, script,
                     IF l.ran_up THEN ContainerAfterLaunch(containers["laravel"], up)
                     ELSE containers["laravel"],
                     res, l.steps \o VerifyStep("laravel", wait, l.launch, res))

\* The .env of the application that LaravelService.start may find: none, a
\* complete one, one with an empty DB_HOST.
ApiEnvFiles ==
    {Absent,
     File(<<[key |-> "DB_HOST", value |-> "x", quoted |-> FALSE]>>),
     File(<<[key |-> "DB_HOST", value |-> "", quoted |-> FALSE]>>)}

\* The probe scripts that matter to a start call: those of its verify.
StartScripts(s, wait, launch) ==
    IF StartInvokesVerify(s, wait, launch) THEN Scripts(s) ELSE {<<>>}

AdapterNext ==
    \/ \E s \in Services : \E n \in -1..MaxAttemptsArg : \E script \in Scripts(s) :
          DirectVerify(s, n, script)
    \/ \E s \in Services : \E down, rm \in CommandOutcomes : DirectCleanup(s, down, rm)
    \/ \E s \in Services : \E wait \in BOOLEAN :
       \E cleanup_if_conflict \in (IF s = "redis" THEN BOOLEAN ELSE {TRUE}) :
       \E launch \in LaunchOutcomes \cup {"conflict"} :
       \E script \in StartScripts(s, wait, launch) :
          DirectStart(s, wait, cleanup_if_conflict, launch, script)
    \/ \E wait \in BOOLEAN : \E down, rm \in CommandOutcomes :
       \E launch, relaunch \in LaunchOutcomes \cup {"conflict"} :
       \E script \in StartScripts("redis", wait, relaunch) :
          RedisStartRetry(wait, launch, down, rm, relaunch, script)
    \/ \E wait \in BOOLEAN : \E api_env \in ApiEnvFiles :
       \E copy \in (IF api_env.exists THEN {"ok", "raise"} ELSE {"ok"}) :
       \E up \in LaunchOutcomes \cup {"conflict"} :
       \E entry \in (IF up = "ok" THEN CommandOutcomes ELSE {"ok"}) :
       \E script \in StartScripts("laravel", wait,
                                  IF up = "ok" /\ entry = "ok" THEN "ok" ELSE "fail") :
          LaravelDirectStart(wait, api_env, copy, up, entry, script)

\* A fresh adapter of each service; at most one container name is taken.
\* The docker directory has a complete .env; there may be a template that
\* asks for DB_HOST.
AdapterInit ==
    /\ InitOrchestrator
    /\ include_monitoring
    /\ networks = {}
    /\ containers \in {[s \in ServiceNames(include_monitoring) |->
                           IF s = x THEN k ELSE "none"] :
                       x \in ServiceNames(include_monitoring), k \in ContainerKinds}
    /\ lastStart = NoStart
    /\ lastCleanup = "none"
    /\ env_file = File(<<[key |-> "DB_HOST", value |-> "x", quoted |-> FALSE]>>)
    /\ example_file \in {Absent,
                          File(<<[key |-> "DB_HOST", value |-> "", quoted |-> FALSE]>>)}
    /\ env_loaded = "true"
    /\ lastEnv = NoEnv

AdapterSpec == AdapterInit /\ [][AdapterNext]_vars

(***************************************************************************)
(* The CLI actions "stop", "cleanup" and "status": main builds a fresh     *)
(* orchestrator and calls stop_all_services, cleanup_all or show_status.   *)
(***************************************************************************)
\* An adapter's stop(): docker compose down; True on exit status 0, False
\* otherwise.  RedisService.stop catches only CalledProcessError, the other
\* adapters every exception.
stop(s, outcome) ==
    IF outcome = "ok" THEN Returned(TRUE, 0, 0)
    ELSE IF outcome = "raise" /\ s = "redis" THEN Raised(0, 0)
    ELSE Returned(FALSE, 0, 0)

\* The compose file of each adapter (the compose_file its constructor
\* passes to BaseDockerService).
ComposeFileOf(s) ==
    CASE s = "redis" -> "docker-compose-global-redis.yml"
      [] s \in {"mysql", "mongodb"} -> "docker-compose.databases.yml"
      [] s \in {"laravel", "queue", "nginx"} -> "docker-compose.app.yml"
      [] OTHER -> "docker-compose.monitoring.yml"

\* The services whose containers the down command of s.stop() covers:
\* LaravelService, QueueService and NginxService pass their service_name;
\* the others run a bare "down", which covers every service of the file.
StopScope(s) ==
    IF s \in {"laravel", "queue", "nginx"} THEN {s}
    ELSE {t \in ServiceNames(TRUE) : ComposeFileOf(t) = ComposeFileOf(s)}

\* The containers after s.stop() ran its down command.
containers_after_stop(cs, s, outcome) ==
    [t \in DOMAIN cs |-> IF t \in StopScope(s) THEN ComposeDown(cs[t], outcome)
                         ELSE cs[t]]

\* Fault variant: the last adapter's result replaces the aggregate.
stop_success_LastWins(ok, r) == ~r.raised /\ r.ret

\* success of stop_all_services after one more stop returned r or raised.
stop_success(ok, r) == ok /\ ~r.raised /\ r.ret

\* Fault variant: the monitoring adapters are left out.
CleanupTargets_CoreOnly(mon) == ServiceOrder(FALSE)

\* "for name, service in self.services.items()" of cleanup_all.
CleanupTargets(mon) == ServiceOrder(mon)

\* "for name, service in self.services.items()" of stop_all_services.
StopTargets(mon) == ServiceOrder(mon)

\* The row show_status prints for a service: the value of its recorded state.
status_row(state, container) == state

CallStopAll ==
    /\ pc = "idle"
    /\ pc' = "stop_loop"
    /\ phase' = "stop"
    /\ idx' = 0
    /\ success' = TRUE
    /\ UNCHANGED <<include_monitoring, service_states, skip_prerequisites,
                   critical_services_ok, failed_services, checks_run, all_passed,
                   networks, net_calls, all_ok, failed_verifications, calls,
                   lastVerify, result, exit_code, adapterVars, report, envVars, toolVars>>

\* One iteration of stop_all_services: service.stop() returns or raises.
StopStep(outcome) ==
    /\ pc = "stop_loop"
    /\ idx < Len(StopTargets(include_monitoring))
    /\ LET s == StopTargets(include_monitoring)[idx + 1]
           r == stop(s, outcome) IN
        /\ EnvAllows(r)
        /\ calls' = [calls EXCEPT ![s] = Append(@, Call("stop", r))]
        /\ containers' = containers_after_stop(containers, s, outcome)
        /\ success' = stop_success(success, r)
    /\ idx' = idx + 1
    /\ UNCHANGED <<include_monitoring, service_states, skip_prerequisites, pc, phase,
                   critical_services_ok, failed_services, checks_run, all_passed,
                   networks, net_calls, all_ok, failed_verifications, lastVerify,
                   result, exit_code, lastStart, lastCleanup, report, envVars, toolVars>>

\* stop_all_services returns success.
StopAllReturn ==
    /\ pc = "stop_loop"
    /\ idx = Len(StopTargets(include_monitoring))
    /\ pc' = "returned"
    /\ result' = IF success THEN "true" ELSE "false"
    /\ UNCHANGED <<include_monitoring, service_states, skip_prerequisites, phase, idx,
                   success, critical_services_ok, failed_services, checks_run,
                   all_passed, networks, net_calls, all_ok, failed_verifications,
                   calls, lastVerify, exit_code, adapterVars, report, envVars, toolVars>>

CallCleanupAll ==
    /\ pc = "idle"
    /\ pc' = "cleanup_loop"
    /\ phase' = "cleanup"
    /\ idx' = 0
    /\ UNCHANGED <<include_monitoring, service_states, skip_prerequisites, success,
                   critical_services_ok, failed_services, checks_run, all_passed,
                   networks, net_calls, all_ok, failed_verifications, calls,
                   lastVerify, result, exit_code, adapterVars, report, envVars, toolVars>>

\* One iteration of cleanup_all: service.cleanup_existing() returns None; an
\* exception of its commands is swallowed inside the adapter.
CleanupStep(down, rm) ==
    /\ pc = "cleanup_loop"
    /\ idx < Len(CleanupTargets(include_monitoring))
    /\ LET s == CleanupTargets(include_monitoring)[idx + 1] IN
        /\ calls' = [calls EXCEPT ![s] = Append(@,
                        [op |-> "cleanup_existing",
                         ret |-> IF "raise" \in {down, rm} THEN "swallowed" ELSE "none"])]
        /\ containers' = [containers EXCEPT ![s] = cleanup_existing(s, @, down, rm)]
    /\ idx' = idx + 1
    /\ UNCHANGED <<include_monitoring, service_states, skip_prerequisites, pc, phase,
                   success, critical_services_ok, failed_services, checks_run,
                   all_passed, networks, net_calls, all_ok, failed_verifications,
                   lastVerify, result, exit_code, lastStart, lastCleanup, report,
                   envVars, toolVars>>

\* cleanup_all returns (None).
CleanupAllReturn ==
    /\ pc = "cleanup_loop"
    /\ idx = Len(CleanupTargets(include_monitoring))
    /\ pc' = "returned"
    /\ result' = "none"
    /\ UNCHANGED <<include_monitoring, service_states, skip_prerequisites, phase, idx,
                   success, critical_services_ok, failed_services, checks_run,
                   all_passed, networks, net_calls, all_ok, failed_verifications,
                   calls, lastVerify, exit_code, adapterVars, report, envVars, toolVars>>

\* show_status: one row per entry of service_states.
ShowStatus ==
    /\ pc = "idle"
    /\ report' = [s \in DOMAIN service_states |->
                     status_row(service_states[s], containers[s])]
    /\ pc' = "returned"
    /\ phase' = "status"
    /\ result' = "none"
    /\ UNCHANGED <<include_monitoring, service_states, skip_prerequisites, idx,
                   success, critical_services_ok, failed_services, checks_run,
                   all_passed, networks, net_calls, all_ok, failed_verifications,
                   calls, lastVerify, exit_code, adapterVars, envVars, toolVars>>

OpsNext ==
    \/ CallStopAll
    \/ \E outcome \in CommandOutcomes : StopStep(outcome)
    \/ StopAllReturn
    \/ CallCleanupAll
    \/ \E down, rm \in CommandOutcomes : CleanupStep(down, rm)
    \/ CleanupAllReturn
    \/ ShowStatus

\* A fresh orchestrator; the containers are those an earlier process left.
OpsInit ==
    /\ InitOrchestrator
    /\ networks = {}
    /\ containers \in {[s \in ServiceNames(include_monitoring) |->
                           IF s = x THEN k ELSE "none"] :
                       x \in ServiceNames(include_monitoring), k \in ContainerKinds}
    /\ lastStart = NoStart
    /\ lastCleanup = "none"
    /\ InitEnv
    /\ env_loaded = "true"

OpsSpec == OpsInit /\ [][OpsNext]_vars

(***************************************************************************)
(* Direct calls of a LaravelEnvManager on the files of the environment.    *)
(***************************************************************************)
\* One call op of the manager ended with ret and left the .env as env.  A
\* caller repeats the same call, MaxEnvCalls times at most.
EnvCall(op, ret, env) ==
    /\ pc = "idle"
    /\ lastEnv.n < MaxEnvCalls
    /\ lastEnv.op \in {"none", op}
    /\ env_file' = env
    /\ lastEnv' = [op |-> op, prev |-> lastEnv.op, ret |-> ret, before |-> env_file,
                   n |-> lastEnv.n + 1]
    /\ UNCHANGED <<include_monitoring, service_states, skip_prerequisites, pc, phase,
                   idx, success, critical_services_ok, failed_services, checks_run,
                   all_passed, networks, net_calls, all_ok, failed_verifications,
                   calls, lastVerify, result, exit_code, adapterVars, report,
                   example_file, env_loaded, toolVars>>

BoolText(b) == IF b THEN "true" ELSE "false"

EnsureAllEnvVars ==
    EnvCall("_ensure_all_env_vars", "none", _ensure_all_env_vars(env_file, example_file))

ValidateEnvFile ==
    LET r == validate_env_file(env_file, example_file) IN
    EnvCall("validate_env_file", BoolText(r.ret), r.env)

ValidateRequiredVars ==
    LET r == validate_required_vars(env_file, example_file) IN
    EnvCall("validate_required_vars",
            IF DOMAIN r.validation = {} THEN "empty"
            ELSE BoolText(all_values(r.validation)),
            r.env)

LoadEnvVars ==
    LET r == load_env_vars(env_file, example_file) IN
    EnvCall("load_env_vars", BoolText(r.ret), r.env)

SetupLaravelEnv ==
    LET r == setup_laravel_env(env_file, example_file) IN
    EnvCall("setup_laravel_env", BoolText(r.ret), r.env)

EnvNext ==
    \/ EnsureAllEnvVars
    \/ ValidateEnvFile
    \/ ValidateRequiredVars
    \/ LoadEnvVars
    \/ SetupLaravelEnv

\* A manager on any .env and any template within the bounds.
EnvInit ==
    /\ InitOrchestrator
    /\ ~include_monitoring
    /\ networks = {}
    /\ InitAdapters
    /\ env_file \in Files(MaxEnvLines)
    /\ example_file \in Files(MaxTemplateLines)
    /\ env_loaded = "none"
    /\ lastEnv = NoEnv

EnvSpec == EnvInit /\ [][EnvNext]_vars

(***************************************************************************)
(* The prerequisites command line (prerequisites.py main): a fresh         *)
(* PrerequisiteChecker, check_all, exit(0 if success else 1).              *)
(***************************************************************************)
\* The checker after check name ended with outcome: a returned result is
\* stored in results; a warning is appended to warnings, a fail to errors,
\* an exception to errors as "Exception during <name>".
record_check(chk, name, outcome) ==
    [results |-> IF outcome = "raise" THEN chk.results
                 ELSE Append(chk.results, [check |-> name, status |-> outcome]),
     warnings |-> IF outcome = "warning" THEN Append(chk.warnings, name)
                  ELSE chk.warnings,
     errors |-> IF outcome \in {"fail", "raise"}
                THEN Append(chk.errors, [check |-> name, exception |-> outcome = "raise"])
                ELSE chk.errors]

\* Fault variant: the loop over the checks ends at the first failure.
ChecksContinue_StopAtFailure(passed) == passed

\* check_all's for loop has no break and no return: it goes on whatever
\* the checks so far reported.
ChecksContinue(passed) == TRUE

\* main: checker = PrerequisiteChecker(); checker.check_all(...) begins.
PrereqMain ==
    /\ pc = "idle"
    /\ pc' = "check_all"
    /\ checker' = NewChecker
    /\ checks_run' = 0
    /\ all_passed' = TRUE
    /\ UNCHANGED <<include_monitoring, service_states, skip_prerequisites, phase,
                   idx, success, critical_services_ok, failed_services, networks,
                   net_calls, all_ok, failed_verifications, calls, lastVerify,
                   result, exit_code, adapterVars, report, envVars, invoked,
                   entry_log, lastRetry, lastNet, container_env>>

\* One iteration of check_all's loop: the check function is called and the
\* checker records how it ended.
CheckStep(outcome) ==
    /\ pc = "check_all"
    /\ checks_run < Len(Checks)
    /\ ChecksContinue(all_passed)
    /\ LET name == Checks[checks_run + 1] IN
        /\ invoked' = Append(invoked, [check |-> name, outcome |-> outcome])
        /\ checker' = record_check(checker, name, outcome)
    /\ checks_run' = checks_run + 1
    /\ all_passed' = check_all_step(all_passed, outcome)
    /\ UNCHANGED <<include_monitoring, service_states, skip_prerequisites, pc, phase,
                   idx, success, critical_services_ok, failed_services, networks,
                   net_calls, all_ok, failed_verifications, calls, lastVerify,
                   result, exit_code, adapterVars, report, envVars, entry_log,
                   lastRetry, lastNet, container_env>>

\* check_all prints the summary and returns all_passed; main returns it and
\* the process exits with 0 if it is True, with 1 otherwise.
PrereqExit ==
    /\ pc = "check_all"
    /\ checks_run = Len(Checks) \/ ~ChecksContinue(all_passed)
    /\ result' = BoolText(all_passed)
    /\ exit_code' = ExitCode(BoolText(all_passed))
    /\ pc' = "exited"
    /\ UNCHANGED <<include_monitoring, service_states, skip_prerequisites, phase,
                   idx, success, critical_services_ok, failed_services, checks_run,
                   all_passed, networks, net_calls, all_ok, failed_verifications,
                   calls, lastVerify, adapterVars, report, envVars, toolVars>>

PrereqNext ==
    \/ PrereqMain
    \/ \E outcome \in CheckOutcomes : CheckStep(outcome)
    \/ PrereqExit

\* The process has not called anything yet.
PrereqInit ==
    /\ InitOrchestrator
    /\ ~include_monitoring
    /\ networks = {}
    /\ InitAdapters
    /\ env_file = Absent
    /\ example_file = Absent
    /\ env_loaded = "none"
    /\ lastEnv = NoEnv

PrereqSpec == PrereqInit /\ [][PrereqNext]_vars

(***************************************************************************)
(* The Laravel entrypoint (entrypoint.py): LaravelEntrypoint.run, executed *)
(* as a script.  Every command goes through docker_exec, which runs        *)
(* subprocess.run(check=True): a command ends "ok", "fail" (non-zero exit: *)
(* CalledProcessError) or "raise" (another exception, e.g. the docker      *)
(* binary is missing).  A step method ends "done" or "raised".             *)
(***************************************************************************)
\* ensure_environment: test -d base_path; a CalledProcessError becomes a
\* RuntimeError.
ensure_environment(o) == IF o[1] = "ok" THEN "done" ELSE "raised"

\* run, step 1.5: test -f .env through docker_exec.  check=True raises on a
\* non-zero exit, so the branch that creates a basic .env is never taken.
dotenv_check(o) == IF o[1] = "ok" THEN "done" ELSE "raised"

\* docker_exec: subprocess.run(check=True) returns only a zero exit.
docker_exec_returns(outcome) == outcome = "ok"

returncode(outcome) == IF outcome = "ok" THEN 0 ELSE 1

\* run, step 1.5: the branch that writes a basic .env is taken when the
\* test -f that docker_exec returned has a non-zero returncode.
creates_basic_env(o) == docker_exec_returns(o[1]) /\ returncode(o[1]) # 0

\* The .env of the container after step 1.5 (the echo commands are o[2]).
env_after_check(env, o) ==
    IF creates_basic_env(o) /\ o[2] = "ok"
    THEN [env EXCEPT !.check = o[1], !.file = "empty_key", !.created = TRUE]
    ELSE [env EXCEPT !.check = o[1]]

\* composer_install: _get_app_env (o[1], every failure swallowed), then
\* composer install (o[2]); a CalledProcessError is printed and re-raised.
composer_install(o) == IF o[2] = "ok" THEN "done" ELSE "raised"

\* npm_install: which npm (o[1]), npm install (o[2]); a CalledProcessError
\* of either is swallowed.
npm_install(o) ==
    IF o[1] = "fail" THEN "done"
    ELSE IF o[1] = "raise" \/ o[2] = "raise" THEN "raised"
    ELSE "done"

\* generate_app_key: test -f .env (o[1]), grep APP_KEY (o[2]), key:generate
\* when the key is empty (o[3]); a CalledProcessError of any of them runs
\* key:generate in the handler (o[4]), whose failure is re-raised.
generate_app_key(o, key_empty) ==
    LET handler == IF o[4] = "ok" THEN "done" ELSE "raised" IN
    IF o[1] = "raise" THEN "raised"
    ELSE IF o[1] = "fail" THEN handler
    ELSE IF o[2] = "raise" THEN "raised"
    ELSE IF o[2] = "fail" THEN handler
    ELSE IF ~key_empty THEN "done"
    ELSE IF o[3] = "ok" THEN "done"
    ELSE IF o[3] = "fail" THEN handler
    ELSE "raised"

\* generate_app_key: the artisan key:generate commands it runs: one in the
\* try block when the key read is empty, one in the CalledProcessError
\* handler, whatever the key.
key_generate_runs(o, key_empty) ==
    IF o[1] = "raise" THEN <<>>
    ELSE IF o[1] = "fail" THEN <<o[4]>>
    ELSE IF o[2] = "raise" THEN <<>>
    ELSE IF o[2] = "fail" THEN <<o[4]>>
    ELSE IF ~key_empty THEN <<>>
    ELSE IF o[3] = "fail" THEN <<o[3], o[4]>>
    ELSE <<o[3]>>

\* The .env of the container after generate_app_key: a key:generate that
\* succeeds writes a new APP_KEY.
env_after_key(env, o) ==
    LET runs == key_generate_runs(o, env.file # "has_key") IN
    [env EXCEPT !.file = IF \E i \in 1..Len(runs) : runs[i] = "ok"
                         THEN "has_key" ELSE @,
                !.keygen = @ + Len(runs),
                !.clobbered = @ \/ (env.file = "has_key" /\ runs # <<>>)]

\* copy_env_for_testing: cp (o[5]); a CalledProcessError is swallowed.
copy_env_for_testing(o) == IF o[5] = "raise" THEN "raised" ELSE "done"

\* clear_caches: four artisan clear commands, each CalledProcessError
\* swallowed.
clear_caches(o) == IF \E i \in 1..4 : o[i] = "raise" THEN "raised" ELSE "done"

\* run_migrations: migrate (o[1]); on CalledProcessError migrate:reset
\* (o[2]) and migrate (o[3]), whose CalledProcessError is swallowed.
run_migrations(o) ==
    IF o[1] = "ok" THEN "done"
    ELSE IF o[1] = "raise" THEN "raised"
    ELSE IF o[2] = "raise" THEN "raised"
    ELSE IF o[2] = "fail" THEN "done"
    ELSE IF o[3] = "raise" THEN "raised"
    ELSE "done"

\* cache_optimizations: three artisan cache commands, each
\* CalledProcessError swallowed.
cache_optimizations(o) == IF \E i \in 1..3 : o[i] = "raise" THEN "raised" ELSE "done"

\* fix_permissions: per directory chmod then chown in one try; a
\* CalledProcessError of chmod skips the chown and is swallowed.
fix_permissions(o) ==
    LET dir(i) == o[i] = "raise" \/ (o[i] = "ok" /\ o[i + 1] = "raise") IN
    IF dir(1) \/ dir(3) THEN "raised" ELSE "done"

\* The best-effort steps of run, in the order of the code, and the number
\* of commands each can run.
EntrySteps == <<"composer_install", "npm_install", "generate_app_key", "clear_caches",
                "run_migrations", "cache_optimizations", "fix_permissions">>

CommandsOf == [ensure_environment |-> 1, dotenv_check |-> 2, composer_install |-> 2,
               npm_install |-> 2, generate_app_key |-> 5, clear_caches |-> 4,
               run_migrations |-> 3, cache_optimizations |-> 3, fix_permissions |-> 4]

CommandScripts(step) == [1..CommandsOf[step] -> CommandOutcomes]

\* How the try block of a step of run ends.
run_step(step, o, key_empty) ==
    CASE step = "composer_install" -> composer_install(o)
      [] step = "npm_install" -> npm_install(o)
      [] step = "generate_app_key" ->
            IF generate_app_key(o, key_empty) = "raised" THEN "raised"
            ELSE copy_env_for_testing(o)
      [] step = "clear_caches" -> clear_caches(o)
      [] step = "run_migrations" -> run_migrations(o)
      [] step = "cache_optimizations" -> cache_optimizations(o)
      [] step = "fix_permissions" -> fix_permissions(o)

\* Fault variant: an exception of a step reaches the outer handler of run.
run_continues_Reraise(outcome) == outcome = "done"

\* Each step of run sits in its own try with an except Exception handler
\* that only prints: run goes on to the next step.
run_continues(outcome) == TRUE

\* The process ends with status code.
EntryEnds(code) ==
    /\ exit_code' = code
    /\ pc' = "exited"

\* python3 entrypoint.py --container <name>: LaravelEntrypoint(...).run().
\* file is the .env of the container the entrypoint is pointed at.
EntryMain(file) ==
    /\ pc = "idle"
    /\ pc' = "entry_env"
    /\ container_env' = [NoContainerEnv EXCEPT !.file = file, !.at_launch = file]
    /\ UNCHANGED <<include_monitoring, service_states, skip_prerequisites, phase,
                   idx, success, critical_services_ok, failed_services, checks_run,
                   all_passed, networks, net_calls, all_ok, failed_verifications,
                   calls, lastVerify, result, exit_code, adapterVars, report,
                   envVars, checker, invoked, entry_log, lastRetry, lastNet>>

\* run: self.ensure_environment(); its exception reaches the outer handler,
\* which prints it and re-raises: the process ends with status 1.
EnsureEnvironment(o) ==
    /\ pc = "entry_env"
    /\ LET out == ensure_environment(o) IN
        /\ entry_log' = Append(entry_log, [step |-> "ensure_environment", out |-> out])
        /\ IF out = "done"
           THEN pc' = "entry_dotenv" /\ UNCHANGED exit_code
           ELSE EntryEnds(1)
    /\ UNCHANGED <<include_monitoring, service_states, skip_prerequisites, phase,
                   idx, success, critical_services_ok, failed_services, checks_run,
                   all_passed, networks, net_calls, all_ok, failed_verifications,
                   calls, lastVerify, result, adapterVars, report, envVars,
                   checker, invoked, lastRetry, lastNet, container_env>>

\* run: the .env check; its exception reaches the outer handler too.  test
\* -f exits with zero only when the file is there.
DotenvCheck(o) ==
    /\ pc = "entry_dotenv"
    /\ o[1] = "ok" => container_env.file # "missing"
    /\ container_env' = env_after_check(container_env, o)
    /\ LET out == dotenv_check(o) IN
        /\ entry_log' = Append(entry_log, [step |-> "dotenv_check", out |-> out])
        /\ IF out = "done"
           THEN pc' = "entry_steps" /\ idx' = 1 /\ UNCHANGED exit_code
           ELSE EntryEnds(1) /\ UNCHANGED idx
    /\ UNCHANGED <<include_monitoring, service_states, skip_prerequisites, phase,
                   success, critical_services_ok, failed_services, checks_run,
                   all_passed, networks, net_calls, all_ok, failed_verifications,
                   calls, lastVerify, result, adapterVars, report, envVars,
                   checker, invoked, lastRetry, lastNet>>

\* run: the next best-effort step; the key generate_app_key reads is the
\* one the .env of the container holds.
EntryStep(o) ==
    /\ pc = "entry_steps"
    /\ idx <= Len(EntrySteps)
    /\ container_env' = IF EntrySteps[idx] = "generate_app_key"
                        THEN env_after_key(container_env, o)
                        ELSE container_env
    /\ LET out == run_step(EntrySteps[idx], o, container_env.file # "has_key") IN
        /\ entry_log' = Append(entry_log, [step |-> EntrySteps[idx], out |-> out])
        /\ IF run_continues(out)
           THEN idx' = idx + 1 /\ UNCHANGED <<pc, exit_code>>
           ELSE EntryEnds(1) /\ UNCHANGED idx
    /\ UNCHANGED <<include_monitoring, service_states, skip_prerequisites, phase,
                   success, critical_services_ok, failed_services, checks_run,
                   all_passed, networks, net_calls, all_ok, failed_verifications,
                   calls, lastVerify, result, adapterVars, report, envVars,
                   checker, invoked, lastRetry, lastNet>>

\* run returns after the last step; the process ends with status 0.
EntryReturns ==
    /\ pc = "entry_steps"
    /\ idx > Len(EntrySteps)
    /\ EntryEnds(0)
    /\ UNCHANGED <<include_monitoring, service_states, skip_prerequisites, phase,
                   idx, success, critical_services_ok, failed_services, checks_run,
                   all_passed, networks, net_calls, all_ok, failed_verifications,
                   calls, lastVerify, result, adapterVars, report, envVars,
                   toolVars>>

EntryNext ==
    \/ \E file \in {"missing", "empty_key", "has_key"} : EntryMain(file)
    \/ \E o \in CommandScripts("ensure_environment") : EnsureEnvironment(o)
    \/ \E o \in CommandScripts("dotenv_check") : DotenvCheck(o)
    \/ /\ pc = "entry_steps"
       /\ idx <= Len(EntrySteps)
       /\ \E o \in CommandScripts(EntrySteps[idx]) : EntryStep(o)
    \/ EntryReturns

\* The script has not run anything yet.
EntryInit == PrereqInit

EntrySpec == EntryInit /\ [][EntryNext]_vars

(***************************************************************************)
(* retry_on_failure(func, max_attempts, delay) (error_handler.py).  A call *)
(* of func returns a value ("r1", "r2") or raises an exception ("e1",      *)
(* "e2"); script[i] is how its i-th call ends.  events lists the calls of  *)
(* func and the sleeps in the order they happen.                           *)
(***************************************************************************)
FuncOutcomes == {"r1", "r2", "e1", "e2"}

IsException(o) == o \in {"e1", "e2"}

\* Fault variant: the helper sleeps after every failed attempt.
sleeps_after_Always(attempt, max_attempts) == TRUE

\* The handler sleeps unless the attempt was the last one.
sleeps_after(attempt, max_attempts) == attempt < max_attempts - 1

\* for attempt in range(max_attempts): return func(), or remember the
\* exception and sleep.  After the loop the function ends without a return
\* or raise statement: it returns None.
RECURSIVE retry_loop(_, _, _, _, _)
retry_loop(attempt, max_attempts, delay, script, events) ==
    IF attempt >= max_attempts
    THEN [events |-> events, outcome |-> [kind |-> "return", value |-> "None"]]
    ELSE LET o == script[attempt + 1]
             called == Append(events, [ev |-> "call", arg |-> attempt + 1])
         IN
         IF ~IsException(o)
         THEN [events |-> called, outcome |-> [kind |-> "return", value |-> o]]
         ELSE retry_loop(attempt + 1, max_attempts, delay, script,
                         IF sleeps_after(attempt, max_attempts)
                         THEN Append(called, [ev |-> "sleep", arg |-> delay])
                         ELSE called)

retry_on_failure(max_attempts, delay, script) ==
    retry_loop(0, max_attempts, delay, script, <<>>)

\* One call of the helper.
CallRetry(max_attempts, delay, script) ==
    /\ pc = "idle"
    /\ lastRetry = NoRetry
    /\ LET r == retry_on_failure(max_attempts, delay, script) IN
       lastRetry' = [max_attempts |-> max_attempts, delay |-> delay, script |-> script,
                     events |-> r.events, outcome |-> r.outcome]
    /\ UNCHANGED <<include_monitoring, service_states, skip_prerequisites, pc, phase,
                   idx, success, critical_services_ok, failed_services, checks_run,
                   all_passed, networks, net_calls, all_ok, failed_verifications,
                   calls, lastVerify, result, exit_code, adapterVars, report,
                   envVars, checker, invoked, entry_log, lastNet,
                   container_env>>

RetryNext ==
    \E max_attempts \in -1..MaxRetryAttempts : \E delay \in 1..2 :
    \E script \in [1..MaxRetryAttempts -> FuncOutcomes] :
        CallRetry(max_attempts, delay, script)

\* No call has been made.
RetryInit == PrereqInit

RetrySpec == RetryInit /\ [][RetryNext]_vars

(***************************************************************************)
(* Direct calls of DockerNetworkManager.create_all_networks.               *)
(***************************************************************************)
DirectCreateAll(env) ==
    /\ pc = "idle"
    /\ net_calls < MaxNetCalls
    /\ LET r == create_all_networks(networks, env) IN
        /\ networks' = r.nets
        /\ lastNet' = NetCall(r)
    /\ net_calls' = net_calls + 1
    /\ UNCHANGED <<include_monitoring, service_states, skip_prerequisites, pc, phase,
                   idx, success, critical_services_ok, failed_services, checks_run,
                   all_passed, all_ok, failed_verifications, calls, lastVerify,
                   result, exit_code, adapterVars, report, envVars, checker,
                   invoked, entry_log, lastRetry, container_env>>

NetNext == \E env \in [Range(ProjectNetworks) -> NetworkEnv] : DirectCreateAll(env)

\* A manager on a daemon that has any of the project's networks.
NetInit ==
    /\ InitOrchestrator
    /\ InitNetworks
    /\ InitAdapters
    /\ env_file = Absent
    /\ example_file = Absent
    /\ env_loaded = "none"
    /\ lastEnv = NoEnv

NetSpec == NetInit /\ [][NetNext]_vars

(***************************************************************************)
(* Properties.                                                             *)
(***************************************************************************)
\* Some call op of service s returned ret, as entry i of calls[s].
CallAt(s, i, op, ret) == calls[s][i].op = op /\ calls[s][i].ret = ret

StartCount(s) == Cardinality({i \in DOMAIN calls[s] : calls[s][i].op = "start"})

Datastores == Range(DatastoreOrder)

Applications == Services \ {"redis", "mysql", "mongodb"}

\* start_all_services is over: it returned or raised.
RunOver == pc \in {"returned", "raised", "exited"}

\* C1: a service is READY only if, earlier in the run, start(wait=False) on
\* it returned True and a later verify() of the state machine returned True.
C1_ReadyOnlyAfterStartAndVerify ==
    \A s \in Services :
        service_states[s] = READY =>
            \E i, j \in DOMAIN calls[s] :
                /\ i < j
                /\ CallAt(s, i, "start", "true")
                /\ CallAt(s, j, "verify", "true")

C1_Witness ==
    /\ service_states["redis"] = READY
    /\ service_states["mysql"] = FAILED
    /\ pc = "returned"

\* C2: once a datastore is FAILED, start has not been and is never invoked
\* on an application-tier or monitoring service, and each of them is
\* PENDING, in particular when start_all_services returns.
C2_FailedDatastoreSkipsApplications ==
    (\E d \in Datastores : service_states[d] = FAILED) =>
        \A a \in Applications : StartCount(a) = 0 /\ service_states[a] = PENDING

C2_Witness ==
    /\ pc = "returned"
    /\ include_monitoring
    /\ service_states["mongodb"] = FAILED
    /\ service_states["redis"] = READY

\* C3: start_all_services returns True only if every service ended READY
\* and no final verification failed; with a FAILED service the process
\* exits with code 1.
C3_ReturnsTrueOnlyIfAllReady ==
    /\ result = "true" =>
          /\ \A s \in Services : service_states[s] = READY
          /\ failed_verifications = <<>>
    /\ (pc = "exited" /\ \E s \in Services : service_states[s] = FAILED) =>
          exit_code = 1

AllowedTransitions ==
    {<<PENDING, STARTING>>, <<STARTING, VERIFYING>>, <<STARTING, FAILED>>,
     <<VERIFYING, READY>>, <<VERIFYING, FAILED>>}

\* C4: every service is PENDING at construction, and every change of a
\* service's state is one of PENDING->STARTING, STARTING->VERIFYING,
\* STARTING->FAILED, VERIFYING->READY, VERIFYING->FAILED.
C4_OnlyAllowedTransitions ==
    /\ \A s \in Services : service_states[s] = PENDING
    /\ [][\A s \in Services :
             service_states'[s] # service_states[s] =>
                 <<service_states[s], service_states'[s]>> \in AllowedTransitions]_vars

C4_Witness ==
    /\ service_states["redis"] = READY
    /\ service_states["mysql"] = FAILED
    /\ Len(calls["mysql"]) = 1
    /\ service_states["mongodb"] = FAILED
    /\ Len(calls["mongodb"]) = 2

\* C5: FAILED is terminal: once a service is FAILED its state never changes
\* and neither start nor verify is invoked on it again (the final
\* verification pass skips it).
C5_FailedIsTerminal ==
    [][\A s \in Services :
          service_states[s] = FAILED =>
              service_states'[s] = FAILED /\ calls'[s] = calls[s]]_vars

C5_Witness ==
    /\ pc = "returned"
    /\ service_states["redis"] = FAILED
    /\ service_states["mysql"] = READY
    /\ Len(calls["mysql"]) = 3

\* The order of the claim.
C6_Order ==
    <<"redis", "mysql", "mongodb", "laravel", "queue", "nginx",
      "elasticsearch", "logstash", "kibana", "prometheus">>

\* C6: services are started one at a time in the order redis, mysql,
\* mongodb, laravel, queue, nginx, elasticsearch, logstash, kibana,
\* prometheus: a service has left PENDING (start is or was invoked) only if
\* every service before it is READY or FAILED, and at most one service is
\* STARTING or VERIFYING.
C6_OneAtATimeInOrder ==
    /\ Cardinality({s \in Services : service_states[s] \in {STARTING, VERIFYING}}) <= 1
    /\ \A i, j \in 1..Len(C6_Order) :
          (/\ i < j
           /\ C6_Order[j] \in Services
           /\ (service_states[C6_Order[j]] # PENDING \/ StartCount(C6_Order[j]) > 0))
          => service_states[C6_Order[i]] \in {READY, FAILED}

C6_Witness ==
    /\ include_monitoring
    /\ service_states["prometheus"] = VERIFYING
    /\ service_states["nginx"] = FAILED
    /\ service_states["kibana"] = FAILED

\* C7: in every run that gets past prerequisites and network creation,
\* start is invoked exactly once on each of redis, mysql and mongodb,
\* whether or not an earlier datastore failed.
C7_EveryDatastoreStartedOnce ==
    \A d \in Datastores :
        /\ StartCount(d) <= 1
        /\ (RunOver /\ phase # "none") => StartCount(d) = 1

C7_Witness ==
    /\ pc = "returned"
    /\ service_states["redis"] = FAILED
    /\ service_states["mysql"] = FAILED
    /\ StartCount("mongodb") = 1

\* C8: when the prerequisite check fails (and is not skipped),
\* start_all_services returns False without creating networks and without
\* any start or verify, every service PENDING; when skip_prerequisites is
\* True no check is run.
C8_PrerequisiteFailureAborts ==
    /\ skip_prerequisites => checks_run = 0
    /\ (RunOver /\ ~skip_prerequisites /\ ~all_passed) =>
          /\ result = "false"
          /\ net_calls = 0
          /\ \A s \in Services : calls[s] = <<>> /\ service_states[s] = PENDING

C8_Witness ==
    /\ pc = "returned"
    /\ ~skip_prerequisites
    /\ checks_run = Len(Checks)
    /\ ~all_passed
    /\ networks = {}

\* Probe i of the verify call v succeeded.
ProbeSucceeded(v, i) ==
    IF v.svc \in HttpProbed
    THEN Outcome(v.svc, v.script, i) \in accept_statuses(v.svc)
    ELSE Outcome(v.svc, v.script, i) = "ok"

\* One of the probes that the verify call v ran, within its budget, succeeded.
SucceededWithinBudget(v) ==
    \E i \in 1..v.res.probes : i <= v.max_attempts /\ ProbeSucceeded(v, i)

C10_NoAttemptsNoProbe ==
    (lastVerify.svc # "none" /\ lastVerify.max_attempts <= 0) =>
        /\ ~lastVerify.res.ret
        /\ ~lastVerify.res.raised
        /\ lastVerify.res.probes = 0
        /\ lastVerify.res.sleeps = 0

\* The first probe of the verify call v that succeeds among its first n, or 0.
FirstSuccess(v, n) ==
    LET ok == {i \in 1..n : ProbeSucceeded(v, i)} IN
    IF ok = {} THEN 0 ELSE CHOOSE i \in ok : \A j \in ok : i <= j

\* C11: for every adapter and every max_attempts = n >= 1, verify polls the
\* probe up to n times: it returns True as soon as one probe succeeds (having
\* run exactly the probes up to that one), it returns False only after n
\* failed probes (a failing or erroring probe counts as one attempt and
\* polling goes on), it never runs more than n probes and it ends with a
\* return value.
C11_PollsUpToMaxAttempts ==
    (lastVerify.svc # "none" /\ lastVerify.max_attempts >= 1) =>
        LET n == lastVerify.max_attempts
            first == FirstSuccess(lastVerify, n) IN
        /\ ~lastVerify.res.raised
        /\ lastVerify.res.probes <= n
        /\ lastVerify.res.ret <=> first # 0
        /\ lastVerify.res.ret => lastVerify.res.probes = first
        /\ ~lastVerify.res.ret => lastVerify.res.probes = n

\* C12: for every adapter, when the launch command succeeds, start(wait=True)
\* invokes verify and returns verify's result, and start(wait=False) returns
\* True without invoking verify.
C12_StartWaitReturnsVerify ==
    (lastStart.svc # "none" /\ lastStart.launch = "ok") =>
        IF lastStart.wait
        THEN /\ lastStart.verified
             /\ lastStart.res =
                    verify(lastStart.svc, DefaultAttempts(lastStart.svc), lastStart.script)
        ELSE /\ ~lastStart.verified
             /\ lastStart.res = Returned(TRUE, 0, 0)

\* C13: for every adapter, once cleanup_existing has returned no container
\* holds the adapter's container_name, and a start issued right after it
\* does not fail with a name-already-in-use conflict.
C13_CleanupThenStartNoConflict ==
    /\ \A s \in Services : lastCleanup = s => containers[s] = "none"
    /\ lastStart.after_cleanup => ~lastStart.conflict

\* The number of calls of op that the run made on service s.
OpCount(s, op) == Cardinality({i \in DOMAIN calls[s] : calls[s][i].op = op})

\* C14: stop_all_services invokes stop exactly once on every configured
\* adapter, also after an earlier stop returned False or raised, and returns
\* True if and only if every stop returned True without raising.
C14_StopAllStopsEveryAdapter ==
    phase = "stop" =>
        /\ \A s \in Services : OpCount(s, "stop") <= 1
        /\ pc # "raised"
        /\ pc = "returned" =>
              /\ \A s \in Services : OpCount(s, "stop") = 1
              /\ result \in {"true", "false"}
              /\ result = "true" <=>
                    \A s \in Services : calls[s] = <<[op |-> "stop", ret |-> "true"]>>

C14_Witness ==
    /\ phase = "stop"
    /\ pc = "returned"
    /\ include_monitoring
    /\ calls["redis"] = <<[op |-> "stop", ret |-> "raised"]>>
    /\ calls["mysql"] = <<[op |-> "stop", ret |-> "false"]>>
    /\ calls["prometheus"] = <<[op |-> "stop", ret |-> "true"]>>
    /\ result = "false"

\* C15: cleanup_all invokes cleanup_existing exactly once on every
\* configured adapter, also when a command of an earlier adapter's cleanup
\* raised, and cleanup_all never raises: it returns.
C15_CleanupAllCleansEveryAdapter ==
    phase = "cleanup" =>
        /\ \A s \in Services : OpCount(s, "cleanup_existing") <= 1
        /\ pc # "raised"
        /\ pc = "returned" =>
              /\ \A s \in Services : OpCount(s, "cleanup_existing") = 1
              /\ result = "none"

C15_Witness ==
    /\ phase = "cleanup"
    /\ pc = "returned"
    /\ include_monitoring
    /\ calls["redis"] = <<[op |-> "cleanup_existing", ret |-> "swallowed"]>>
    /\ calls["prometheus"] = <<[op |-> "cleanup_existing", ret |-> "none"]>>

\* C16: status reports every service's recorded state and falls back on the
\* live container, so that a service whose container exists is not reported
\* PENDING from the record of a fresh orchestrator.
C16_StatusInspectsContainers ==
    (phase = "status" /\ pc = "returned") =>
        /\ DOMAIN report = Services
        /\ \A s \in Services :
              /\ service_states[s] # PENDING => report[s] = service_states[s]
              /\ containers[s] = "own" => report[s] # PENDING

\* The template keys, as dotenv reads them.
TemplateKeys == Range(dotenv_keys(example_file))

\* C17: reconciling the .env against the template is idempotent: a second
\* _ensure_all_env_vars leaves the file as the first one left it, and after
\* one application dotenv finds every template key in the .env.
C17_ReconcileIdempotent ==
    lastEnv.op = "_ensure_all_env_vars" =>
        /\ lastEnv.prev = "_ensure_all_env_vars" => env_file = lastEnv.before
        /\ example_file # Absent => TemplateKeys \subseteq Range(dotenv_keys(env_file))

\* The keys of the claim that may be empty.
C18_OptionalKeys == {"APP_KEY", "QUEUE_OPTIONS", "REDIS_PASSWORD"}

EnvOperations ==
    {"validate_env_file", "validate_required_vars", "load_env_vars", "setup_laravel_env"}

\* C19 as amended: with both the .env and the template missing,
\* validate_env_file, load_env_vars and setup_laravel_env return False and
\* validate_required_vars returns an empty dictionary, as normal return
\* values, and no file is created.
C19_MissingFilesReturnFalse ==
    (lastEnv.op \in EnvOperations /\ lastEnv.before = Absent /\ example_file = Absent) =>
        /\ lastEnv.ret = (IF lastEnv.op = "validate_required_vars" THEN "empty" ELSE "false")
        /\ env_file = Absent

C19_Witness ==
    /\ lastEnv.op = "setup_laravel_env"
    /\ lastEnv.before = Absent
    /\ example_file = Absent
    /\ lastEnv.ret = "false"

\* C19 as stated: with both files missing the operations end with a raised
\* ConfigurationError, not a return value, and create no file.
C19_MissingFilesRaise ==
    (lastEnv.op \in EnvOperations /\ lastEnv.before = Absent /\ example_file = Absent) =>
        /\ lastEnv.ret = "raised"
        /\ env_file = Absent

\* C20 as amended: a failed environment setup at construction does not
\* abort: the constructor completes with every service PENDING,
\* start_all_services can be called, and a run that gets past prerequisites
\* and network creation invokes start once on each datastore.
C20_EnvFailureDoesNotAbort ==
    env_loaded = "false" =>
        /\ pc = "idle" =>
              /\ \A s \in Services : service_states[s] = PENDING
              /\ ENABLED (\E skip \in BOOLEAN : CallStartAll(skip))
        /\ (RunOver /\ phase # "none") => \A d \in Datastores : StartCount(d) = 1

C20_Witness ==
    /\ env_loaded = "false"
    /\ env_file = Absent
    /\ pc = "returned"
    /\ service_states["redis"] = READY

\* C20 as stated: when the environment setup failed at construction, a
\* subsequent start_all_services invokes no service start.
C20_EnvFailureAborts ==
    env_loaded = "false" => \A s \in Services : StartCount(s) = 0

\* The outcomes of the checks check_all has called.
OutcomesSeen == {invoked[i].outcome : i \in 1..Len(invoked)}

\* check_all has returned to the prerequisites command line.
CheckAllReturned == pc = "exited" /\ Len(invoked) > 0

\* C21: when every check reported pass, warning or fail, check_all returns
\* False if at least one reported fail and True otherwise (warnings alone do
\* not make it False), and the prerequisites command line exits 0 exactly
\* when check_all returned True.
C21_FalseIffSomeCheckFails ==
    CheckAllReturned =>
        /\ (exit_code = 0) <=> (result = "true")
        /\ "raise" \notin OutcomesSeen =>
              ((result = "false") <=> ("fail" \in OutcomesSeen))

\* check_all returned True although some checks warned and none failed.
C21_Witness ==
    /\ CheckAllReturned
    /\ OutcomesSeen = {"pass", "warning"}
    /\ result = "true"
    /\ exit_code = 0

\* C22: check_all calls the nine checks once each in the fixed order,
\* whatever the earlier ones reported; a check that raised is recorded in
\* errors and makes the result False.
C22_AllChecksRunInOrder ==
    /\ pc = "check_all" =>
          /\ Len(invoked) = checks_run
          /\ \A i \in 1..Len(invoked) : invoked[i].check = Checks[i]
    /\ CheckAllReturned =>
          /\ Len(invoked) = Len(Checks)
          /\ \A i \in 1..Len(Checks) :
                /\ invoked[i].check = Checks[i]
                /\ invoked[i].outcome = "raise" =>
                      /\ \E j \in 1..Len(checker.errors) :
                            checker.errors[j] = [check |-> Checks[i], exception |-> TRUE]
                      /\ result = "false"

\* The first check raised, the second failed, and the last one still ran.
C22_Witness ==
    /\ CheckAllReturned
    /\ invoked[1].outcome = "raise"
    /\ invoked[2].outcome = "fail"
    /\ invoked[Len(Checks)].check = "permissions"
    /\ invoked[Len(Checks)].outcome = "pass"

\* The entrypoint process has ended.
EntryEnded == pc = "exited" /\ Len(entry_log) > 0

\* The i-th best-effort step the entrypoint attempted, after its two checks.
AttemptedStep(i) == entry_log[i + 2].step

\* C23: whatever steps fail (the environment check and the .env check
\* included), run returns normally and the entrypoint process exits 0.
C23_EntrypointAlwaysExitsZero == EntryEnded => exit_code = 0

\* C24: once the environment check and the .env check have passed, the
\* seven steps are attempted once each in the order composer install, npm
\* install, key generation, cache clearing, migrations, cache optimizations,
\* permission fixing, whatever the earlier ones did.
C24_StepsOnceInOrder ==
    /\ pc = "entry_steps" =>
          /\ Len(entry_log) = idx + 1
          /\ \A i \in 1..(idx - 1) : AttemptedStep(i) = EntrySteps[i]
    /\ (EntryEnded /\ Len(entry_log) > 2) =>
          /\ Len(entry_log) = Len(EntrySteps) + 2
          /\ \A i \in 1..Len(EntrySteps) : AttemptedStep(i) = EntrySteps[i]
          /\ exit_code = 0

\* composer install and the migrations raised, and the permissions were
\* still fixed.
C24_Witness ==
    /\ EntryEnded
    /\ Len(entry_log) = Len(EntrySteps) + 2
    /\ entry_log[3] = [step |-> "composer_install", out |-> "raised"]
    /\ entry_log[7] = [step |-> "run_migrations", out |-> "raised"]
    /\ entry_log[9] = [step |-> "fix_permissions", out |-> "done"]

\* The calls of func, and the sleeps, of the retry_on_failure call made.
RetryCalls == {i \in 1..Len(lastRetry.events) : lastRetry.events[i].ev = "call"}

RetrySleeps == {i \in 1..Len(lastRetry.events) : lastRetry.events[i].ev = "sleep"}

\* Every one of the max_attempts calls of func raised.
AllAttemptsFailed ==
    /\ lastRetry.max_attempts >= 1
    /\ \A i \in 1..lastRetry.max_attempts : IsException(lastRetry.script[i])

\* C25: when all max_attempts calls of func raised, retry_on_failure raises
\* the last exception; it does not return.
C25_RaisesLastException ==
    AllAttemptsFailed =>
        lastRetry.outcome = [kind |-> "raise",
                             value |-> lastRetry.script[lastRetry.max_attempts]]

\* C26: func is called at most max_attempts times; the result of the first
\* call that does not raise is returned and func is not called again;
\* events alternate call, sleep(delay), call, ...: k sleeps precede the
\* (k+1)-th call and nothing follows the last call.
C26_CallsAndSleeps ==
    lastRetry # NoRetry =>
        LET ev == lastRetry.events
            n == Cardinality(RetryCalls)
        IN
        /\ n <= lastRetry.max_attempts \/ n = 0
        /\ \A i \in 1..Len(ev) :
              ev[i] = IF i % 2 = 1 THEN [ev |-> "call", arg |-> (i + 1) \div 2]
                      ELSE [ev |-> "sleep", arg |-> lastRetry.delay]
        /\ Len(ev) = 0 \/ Len(ev) % 2 = 1
        /\ \A i \in 1..(n - 1) : IsException(lastRetry.script[i])
        /\ (n >= 1 /\ ~IsException(lastRetry.script[n])) =>
              lastRetry.outcome = [kind |-> "return", value |-> lastRetry.script[n]]
        /\ (n >= 1 /\ IsException(lastRetry.script[n])) => n = lastRetry.max_attempts

\* Two calls raised, the helper slept twice, and the third call's value
\* was returned.
C26_Witness ==
    /\ lastRetry.max_attempts = MaxRetryAttempts
    /\ Cardinality(RetryCalls) = 3
    /\ Cardinality(RetrySleeps) = 2
    /\ lastRetry.outcome = [kind |-> "return", value |-> "r2"]

\* start_all_services called create_all_networks, which returned False: the
\* run never reached its first batch.
NetworkCreationFailed ==
    /\ net_calls = 1
    /\ ~lastNet.ret
    /\ pc \notin {"idle", "prereq", "networks"}

\* C27: when the creation of the Docker networks failed, start_all_services
\* returned False, no adapter was asked to start or to verify, and every
\* service is still PENDING.
C27_NetworkFailureAborts ==
    NetworkCreationFailed =>
        /\ result = "false"
        /\ \A s \in Services : calls[s] = <<>> /\ service_states[s] = PENDING

\* The prerequisites passed and the creation of the networks failed.
C27_Witness ==
    /\ NetworkCreationFailed
    /\ checks_run = Len(Checks)
    /\ all_passed
    /\ Range(ProjectNetworks) \ networks # {}

\* C28: on a daemon that answers no call with an API error,
\* create_all_networks returns True exactly when the three project networks
\* exist at its return, and two calls in a row both return True.
C28_TrueIffAllNetworksExist ==
    (net_calls > 0 /\ pc = "idle" /\ lastNet.api_errors = 0) =>
        /\ lastNet.ret <=> (networks = Range(ProjectNetworks))
        /\ net_calls >= 2 => (lastNet.prev /\ lastNet.ret)

\* The launch commands the direct start call ran.
LaunchSteps == {i \in 1..Len(lastStart.steps) : lastStart.steps[i].step = "up"}

\* C29: RedisService.start runs the launch command a second time only when
\* the first ended in a name conflict and cleanup_if_conflict is True, with
\* cleanup_existing in between, and never a third time; a launch command
\* that ended with a non-zero exit and is not retried makes start return
\* False.
C29_RedisRetriesLaunchOnce ==
    lastStart.svc = "redis" =>
        LET st == lastStart.steps
            retried == st[1].out = "conflict" /\ lastStart.cleanup_if_conflict
        IN
        /\ st[1].step = "up"
        /\ Cardinality(LaunchSteps) = (IF retried THEN 2 ELSE 1)
        /\ retried => (st[2].step = "cleanup_existing" /\ st[3].step = "up")
        /\ lastStart.launch \in {"fail", "conflict"} =>
              lastStart.res = Returned(FALSE, 0, 0)

\* The first launch met a name conflict, the second one worked and start
\* returned True.
C29_Witness ==
    /\ lastStart.svc = "redis"
    /\ lastStart.steps[1] = Step("up", "conflict")
    /\ Cardinality(LaunchSteps) = 2
    /\ lastStart.launch = "ok"
    /\ lastStart.res.ret

LaravelStartOrder == <<"env", "up", "entrypoint", "verify">>

\* C30: LaravelService.start does environment setup, docker-compose up,
\* the entrypoint and (when wait) verify in that order, reaches a step only
\* if the one before succeeded, skips no step after a success, and returns
\* True only if every step succeeded.
C30_LaravelStopsAtFirstFailure ==
    lastStart.svc = "laravel" =>
        LET st == lastStart.steps
            n == Len(st)
            all_steps == IF lastStart.wait THEN 4 ELSE 3
        IN
        /\ n <= all_steps
        /\ \A i \in 1..n : st[i].step = LaravelStartOrder[i]
        /\ \A i \in 2..n : st[i - 1].out = "ok"
        /\ (n >= 1 /\ st[n].out = "ok") => n = all_steps
        /\ lastStart.res.ret => (n = all_steps /\ \A i \in 1..n : st[i].out = "ok")

\* docker-compose up worked, the entrypoint failed, verify was not called
\* and start returned False.
C30_Witness ==
    /\ lastStart.svc = "laravel"
    /\ lastStart.wait
    /\ Len(lastStart.steps) = 3
    /\ lastStart.steps[2] = Step("up", "ok")
    /\ lastStart.steps[3] = Step("entrypoint", "fail")
    /\ ~lastStart.res.ret
    /\ containers["laravel"] = "own"


\* C31: generate_app_key runs artisan key:generate only when APP_KEY is
\* absent or empty: no execution of it, one in which a check command fails
\* included, runs key:generate while the .env holds a non-empty APP_KEY.
C31_KeyGeneratedOnlyWhenEmpty == ~container_env.clobbered

\* C32: when the .env of the container does not exist (the test -f of run
\* exits with a non-zero status), run creates a basic .env and goes on with
\* the dependency, key, cache, migration and permission steps.
C32_MissingEnvIsCreated ==
    (container_env.at_launch = "missing" /\ container_env.check = "fail")
        => /\ container_env.created
           /\ ~(pc = "exited" /\ Len(entry_log) = 2)

\* C33: when start_all_services returns, every service recorded READY
\* passed its most recent verify call: a service whose verify fails in the
\* final verification pass is not left READY.
C33_ReadyPassedLastVerify ==
    pc = "returned" =>
        \A s \in Services :
            service_states[s] = READY =>
                /\ calls[s] # <<>>
                /\ calls[s][Len(calls[s])].op \in {"verify", "final_verify"}
                /\ calls[s][Len(calls[s])].ret = "true"

\* C34: during a run of start_all_services, verify is never called on a
\* service on which start has not been called earlier in the run; the
\* application services skipped after a datastore failure are not probed by
\* the final verification pass.
C34_VerifyOnlyAfterStart ==
    \A s \in Services : \A i \in DOMAIN calls[s] :
        calls[s][i].op \in {"verify", "final_verify"} =>
            \E j \in 1..(i - 1) : calls[s][j].op = "start"

\* C35: stopping one service leaves the containers of every other service
\* untouched: the stop() of an adapter neither stops nor removes the
\* container of another service, the pairs that share a compose file
\* (mysql and mongodb, the four monitoring services) included.
C35_StopLeavesOthersUntouched ==
    [][(pc = "stop_loop" /\ idx' = idx + 1) =>
          \A t \in DOMAIN containers \ {StopTargets(include_monitoring)[idx + 1]} :
              containers'[t] = containers[t]]_vars

\* self.required_vars of LaravelEnvManager.__init__.
required_vars ==
    {"DB_CONNECTION", "DB_HOST", "DB_DATABASE", "DB_USERNAME", "DB_PASSWORD",
     "DB_DADOS_CONNECTION", "DB_DADOS_HOST", "DB_DADOS_DATABASE",
     "DB_DADOS_USERNAME", "DB_DADOS_PASSWORD", "REDIS_HOST", "REDIS_PORT",
     "APP_ENV", "APP_ROOT", "QUEUE_CONNECTION"}

\* The required variables that a line of the modelled files can bind.
RequiredInFiles == required_vars \cap {l.key : l \in EnvLines}

\* C36: setup_laravel_env returns True only if every variable of
\* required_vars is in the .env with a non-empty value, also when there is
\* no .env.example template (stated for the required variables the files of
\* the model can hold).
C36_TrueOnlyWithRequiredVars ==
    (lastEnv.op = "setup_laravel_env" /\ lastEnv.ret = "true") =>
        \A var \in RequiredInFiles :
            /\ dotenv_get(env_file, var) # NoValue
            /\ strip(dotenv_get(env_file, var)) # ""

====
